---- MODULE Spec2Model ----
(***************************************************************************)
(* MoneyPilot backend: the tool-augmented LLM query cycle.                 *)
(*                                                                         *)
(*   LLMService.query_llm      app/services/llm_service.py                 *)
(*   ToolExecutor              app/services/llm/tool_executor.py           *)
(*   LLMClient (retry policy)  app/services/llm/client.py                  *)
(*   ToolRegistry              app/utils/tool_registry.py                  *)
(*   clean_json_response,                                                  *)
(*   safe_json_dumps           app/utils/json_utils.py                     *)
(*                                                                         *)
(* A text (a Python str holding JSON or prose) is a sequence of tokens;    *)
(* a token is a record [k, v]: k its class, v a sequence of strings.       *)
(* Python's None is the empty sequence <<>> and a present value v is <<v>>.*)
(***************************************************************************)
EXTENDS Integers, Sequences, FiniteSets, TLC

(***************************************************************************)
(* Bounds of the model.                                                    *)
(***************************************************************************)
\* the longest batch of tool calls one completion carries
MaxCalls == 2
\* the most segments of a text given to clean_json_response
MaxSegments == 3
\* the most tool classes alive at a time
MaxClasses == 3
\* the most accesses to the registry between two resets
MaxAccesses == 2

(***************************************************************************)
(* Optional values (Python None).                                          *)
(***************************************************************************)
NoneV == <<>>
Some(v) == <<v>>
IsNone(o) == o = <<>>
Get(o) == o[1]

(***************************************************************************)
(* Texts.  P: punctuation, S: a JSON string literal with the given         *)
(* characters, N: a number literal, L: true/false/null, W: white space,    *)
(* F: a triple-backtick fence, X: any other run of characters.  NFloat: a  *)
(* number literal with a fraction.                                         *)
(***************************************************************************)
P(c) == [k |-> "p", v |-> <<c>>]
S(chars) == [k |-> "s", v |-> chars]
N(d) == [k |-> "n", v |-> <<d>>]
NFloat(i, f) == [k |-> "n", v |-> <<i, ".", f>>]
L(w) == [k |-> "l", v |-> <<w>>]
W == [k |-> "w", v |-> <<" ">>]
F == [k |-> "f", v |-> <<"fence">>]
X(w) == [k |-> "x", v |-> <<w>>]

IsP(tok, c) == tok.k = "p" /\ tok.v = <<c>>

\* str.strip(): leading and trailing white space removed
RECURSIVE LStrip(_)
LStrip(t) == IF t # <<>> /\ Head(t).k = "w" THEN LStrip(Tail(t)) ELSE t

RECURSIVE RStrip(_)
RStrip(t) ==
    IF t # <<>> /\ t[Len(t)].k = "w" THEN RStrip(SubSeq(t, 1, Len(t) - 1)) ELSE t

Strip(t) == RStrip(LStrip(t))

(***************************************************************************)
(* json.loads: a recursive-descent reading of one JSON value.  A parse     *)
(* gives [ok, next, type, keys]: next is the first position after the      *)
(* value, type the Python type of the value, keys the members of an        *)
(* object (each key with the text of its value).                           *)
(***************************************************************************)
RECURSIVE SkipWs(_, _)
SkipWs(t, i) == IF i <= Len(t) /\ t[i].k = "w" THEN SkipWs(t, i + 1) ELSE i

ParseFail == [ok |-> FALSE, next |-> 0, type |-> "", keys |-> <<>>]
ParseOk(n, ty, ks) == [ok |-> TRUE, next |-> n, type |-> ty, keys |-> ks]
\* a member of an object: the characters of its key, the text of its value
Member(key, text) == [key |-> key, text |-> text]

LiteralType(tok) ==
    IF tok.v = <<"null">> THEN "NoneType" ELSE "bool"

\* a number literal with a fraction is read as a float
NumberType(tok) ==
    IF Len(tok.v) > 1 THEN "float" ELSE "int"

RECURSIVE ParseValue(_, _), ParseElements(_, _), ParseMembers(_, _, _)

ParseValue(t, i) ==
    LET j == SkipWs(t, i) IN
    IF j > Len(t) THEN ParseFail
    ELSE CASE t[j].k = "s" -> ParseOk(j + 1, "str", <<>>)
           [] t[j].k = "n" -> ParseOk(j + 1, NumberType(t[j]), <<>>)
           [] t[j].k = "l" -> ParseOk(j + 1, LiteralType(t[j]), <<>>)
           [] IsP(t[j], "[") ->
                LET k == SkipWs(t, j + 1) IN
                IF k <= Len(t) /\ IsP(t[k], "]")
                THEN ParseOk(k + 1, "list", <<>>)
                ELSE ParseElements(t, k)
           [] IsP(t[j], "{") ->
                LET k == SkipWs(t, j + 1) IN
                IF k <= Len(t) /\ IsP(t[k], "}")
                THEN ParseOk(k + 1, "dict", <<>>)
                ELSE ParseMembers(t, k, <<>>)
           [] OTHER -> ParseFail

\* the elements of an array, from the first element to the closing bracket
ParseElements(t, i) ==
    LET e == ParseValue(t, i) IN
    IF ~e.ok THEN ParseFail
    ELSE LET k == SkipWs(t, e.next) IN
         IF k > Len(t) THEN ParseFail
         ELSE IF IsP(t[k], ",") THEN ParseElements(t, k + 1)
         ELSE IF IsP(t[k], "]") THEN ParseOk(k + 1, "list", <<>>)
         ELSE ParseFail

\* the members of an object, from the first key to the closing brace
ParseMembers(t, i, ks) ==
    LET j == SkipWs(t, i) IN
    IF j > Len(t) \/ t[j].k # "s" THEN ParseFail
    ELSE LET c == SkipWs(t, j + 1) IN
         IF c > Len(t) \/ ~IsP(t[c], ":") THEN ParseFail
         ELSE LET e == ParseValue(t, c + 1) IN
              IF ~e.ok THEN ParseFail
              ELSE LET k == SkipWs(t, e.next)
                       ks2 == Append(ks, Member(t[j].v,
                                  SubSeq(t, SkipWs(t, c + 1), e.next - 1)))
                   IN IF k > Len(t) THEN ParseFail
                      ELSE IF IsP(t[k], ",") THEN ParseMembers(t, k + 1, ks2)
                      ELSE IF IsP(t[k], "}") THEN ParseOk(k + 1, "dict", ks2)
                      ELSE ParseFail

\* a Python value read from JSON: its type, its members, and its JSON text
\* without insignificant white space (which identifies the value)
NotWs(tok) == tok.k # "w"
JsonValue(ty, ks, t) == [type |-> ty, keys |-> ks, json |-> SelectSeq(t, NotWs)]

\* json.loads(text): [ok, value]; not ok is json.JSONDecodeError
JsonLoads(t) ==
    LET r == ParseValue(t, 1) IN
    IF r.ok /\ SkipWs(t, r.next) > Len(t)
    THEN [ok |-> TRUE, value |-> JsonValue(r.type, r.keys, t)]
    ELSE [ok |-> FALSE, value |-> JsonValue("", <<>>, <<>>)]

\* json.dumps(value) with the default separators ", " and ": "
RECURSIVE Spaced(_)
Spaced(t) ==
    IF t = <<>> THEN <<>>
    ELSE IF IsP(Head(t), ",") \/ IsP(Head(t), ":")
         THEN <<Head(t), W>> \o Spaced(Tail(t))
         ELSE <<Head(t)>> \o Spaced(Tail(t))

JsonDumps(value) == Spaced(value.json)

(***************************************************************************)
(* Exceptions: the class name, str(e) as a sequence of strings, and        *)
(* __cause__ (None, or the exception it was raised from).                  *)
(***************************************************************************)
Exc(ty, msg) == [type |-> ty, msg |-> msg, cause |-> NoneV]
ExcFrom(ty, msg, e) == [type |-> ty, msg |-> msg, cause |-> Some(e)]

\* str() of the json.JSONDecodeError of an unreadable text
JSONDecodeErrorMsg == <<"Expecting value">>

(***************************************************************************)
(* Python values a tool callable returns.  type: the class name; json: the *)
(* JSON text of a JSON-compatible value (for an object, the text its       *)
(* json() returns or the JSON of what its model_dump() returns); has: the  *)
(* serialization methods the value has; raises: its json() raises; str:    *)
(* str(value).                                                             *)
(***************************************************************************)
PyJson(v) ==
    [type |-> v.type, keys |-> v.keys, json |-> v.json, has |-> {},
     raises |-> FALSE, str |-> <<>>]
PyObject(ty, has, raises, json, str) ==
    [type |-> ty, keys |-> <<>>, json |-> json, has |-> has,
     raises |-> raises, str |-> str]

JsonTypes == {"dict", "list", "str", "int", "float", "bool", "NoneType"}

\* safe_json_dumps(obj) for an obj json.dumps accepts
safe_json_dumps(value) == JsonDumps(value)

\* a serialization that dumps str(result) whatever the result is
SerializeResultAsStr(result) ==
    [ok |-> TRUE, content |-> <<S(result.str)>>, exc |-> Exc("", <<>>)]

\* ToolExecutor._serialize_result: [ok, content]; not ok when result.json() raises
SerializeResult(result) ==
    IF "json" \in result.has
    THEN IF result.raises
         THEN [ok |-> FALSE, content |-> <<>>,
               exc |-> Exc("TypeError", <<"json() failed">>)]
         ELSE [ok |-> TRUE, content |-> result.json, exc |-> Exc("", <<>>)]
    ELSE IF "model_dump" \in result.has
    THEN [ok |-> TRUE, content |-> safe_json_dumps(result), exc |-> Exc("", <<>>)]
    ELSE IF result.type \in JsonTypes
    THEN [ok |-> TRUE, content |-> safe_json_dumps(result), exc |-> Exc("", <<>>)]
    ELSE [ok |-> TRUE, content |-> <<S(result.str)>>, exc |-> Exc("", <<>>)]

(***************************************************************************)
(* ToolRegistry.  A dict is a sequence of entries in insertion order, each *)
(* with its key.  The registry is [tools, initialized]: _tools is None or  *)
(* the dict of collected tools.                                            *)
(***************************************************************************)
\* AbstractTool.__subclasses__(), in discovery order.  A tool class has a
\* class name and the function name its schema declares; BrokenTool's
\* tool_function() raises.
Subclasses == <<"EchoTool", "BrokenTool">>
SchemaName(cls) ==
    CASE cls = "EchoTool" -> "echo_tool"
      [] cls = "AddTool" -> "add_tool"
      [] cls = "SchemalessTool" -> "schemaless_tool"
      [] OTHER -> "broken_tool"
ToolFunctionRaises(cls) == cls = "BrokenTool"
\* SchemalessTool's tool_schema raises when it is read
ToolSchemaRaises(cls) == cls = "SchemalessTool"

ToolSchema(cls) == [type |-> "function", function |-> [name |-> SchemaName(cls)]]

DictKeys(d) == [i \in 1..Len(d) |-> d[i].key]
DictHas(d, key) == \E i \in 1..Len(d) : d[i].key = key
DictGet(d, key) == d[CHOOSE i \in 1..Len(d) : d[i].key = key]
DictSet(d, e) ==
    IF DictHas(d, e.key)
    THEN [i \in 1..Len(d) |-> IF d[i].key = e.key THEN e ELSE d[i]]
    ELSE Append(d, e)

\* ToolRegistry.__init__
NewRegistry == [tools |-> NoneV, initialized |-> FALSE]

\* ToolRegistry._collect_tools over the classes cs, into the dict d
RECURSIVE CollectTools(_, _)
\* a collection that ends at the first class that raises
CollectToolsEndsAtFailure(cs, d) ==
    IF cs = <<>> THEN d
    ELSE IF ToolSchemaRaises(Head(cs)) \/ ToolFunctionRaises(Head(cs))
         THEN d
         ELSE CollectTools(Tail(cs),
                  DictSet(d, [key |-> Head(cs), class |-> Head(cs),
                              schema |-> ToolSchema(Head(cs)),
                              function |-> Head(cs)]))

CollectTools(cs, d) ==
    IF cs = <<>> THEN d
    ELSE IF ToolSchemaRaises(Head(cs)) \/ ToolFunctionRaises(Head(cs))
         THEN CollectTools(Tail(cs), d)
         ELSE CollectTools(Tail(cs),
                  DictSet(d, [key |-> Head(cs), class |-> Head(cs),
                              schema |-> ToolSchema(Head(cs)),
                              function |-> Head(cs)]))

\* an initialization that collects at every access
EnsureInitializedOverAlways(reg, cs) ==
    [tools |-> Some(CollectTools(cs, <<>>)), initialized |-> TRUE]

\* ToolRegistry._ensure_initialized when AbstractTool.__subclasses__() is cs
EnsureInitializedOver(reg, cs) ==
    IF ~reg.initialized
    THEN [tools |-> Some(CollectTools(cs, <<>>)), initialized |-> TRUE]
    ELSE reg

\* ToolRegistry._ensure_initialized
EnsureInitialized(reg) == EnsureInitializedOver(reg, Subclasses)

\* ToolRegistry.reset
ResetRegistry(reg) == [tools |-> NoneV, initialized |-> FALSE]

\* ToolRegistry.get_tool, on an initialized registry: None or the entry
GetTool(reg, name) ==
    IF DictHas(Get(reg.tools), name) THEN Some(DictGet(Get(reg.tools), name)) ELSE NoneV

\* ToolRegistry.list_tool_names, on an initialized registry
ListToolNames(reg) == DictKeys(Get(reg.tools))

\* ToolRegistry.get_tool_schemas: [ok, schemas, exc], names read left to right
RECURSIVE GetToolSchemasFrom(_, _, _)
\* a get_tool_schemas that passes over the names it does not know
GetToolSchemasFromSkipsUnknown(reg, names, schemas) ==
    IF names = <<>>
    THEN [ok |-> TRUE, schemas |-> schemas, exc |-> Exc("", <<>>)]
    ELSE IF ~DictHas(Get(reg.tools), Head(names))
         THEN GetToolSchemasFrom(reg, Tail(names), schemas)
         ELSE GetToolSchemasFrom(reg, Tail(names),
                  Append(schemas, DictGet(Get(reg.tools), Head(names)).schema))

GetToolSchemasFrom(reg, names, schemas) ==
    IF names = <<>>
    THEN [ok |-> TRUE, schemas |-> schemas, exc |-> Exc("", <<>>)]
    ELSE IF ~DictHas(Get(reg.tools), Head(names))
         THEN [ok |-> FALSE, schemas |-> <<>>,
               exc |-> Exc("ValueError",
                           <<"Unknown tool: ", Head(names), ". Available tools: ">>
                           \o ListToolNames(reg))]
         ELSE GetToolSchemasFrom(reg, Tail(names),
                  Append(schemas, DictGet(Get(reg.tools), Head(names)).schema))

GetToolSchemas(reg, names) == GetToolSchemasFrom(EnsureInitialized(reg), names, <<>>)

\* ToolRegistry.get_tool_function: [ok, function, exc]
GetToolFunction(reg, name) ==
    LET r == EnsureInitialized(reg) IN
    IF ~DictHas(Get(r.tools), name)
    THEN [ok |-> FALSE, function |-> "",
          exc |-> Exc("ValueError",
                      <<"Tool '", name, "' not found. Available tools: ">>
                      \o ListToolNames(r))]
    ELSE [ok |-> TRUE, function |-> DictGet(Get(r.tools), name).function,
          exc |-> Exc("", <<>>)]

(***************************************************************************)
(* ToolExecutor.  A tool call is [id, type, function: [name, arguments]],  *)
(* arguments a text.  A tool message is [role, tool_call_id, name,         *)
(* content].  What the callable does when invoked is the environment's:    *)
(* an outcome [kind: "return", value] or [kind: "raise", exc].             *)
(***************************************************************************)
ToolCall(id, name, arguments) ==
    [id |-> id, type |-> "function",
     function |-> [name |-> name, arguments |-> arguments]]

ToolMessage(id, name, content) ==
    [role |-> "tool", tool_call_id |-> id, name |-> name, content |-> Some(content)]

Returns(value) == [kind |-> "return", value |-> value, exc |-> Exc("", <<>>)]
Raises(exc) == [kind |-> "raise", value |-> PyJson(JsonValue("", <<>>, <<>>)), exc |-> exc]
\* the outcome of a call whose callable is never invoked
NotInvoked == [kind |-> "none", value |-> PyJson(JsonValue("", <<>>, <<>>)), exc |-> Exc("", <<>>)]

\* the steps of _execute_single_tool a call gets through before it fails:
\* "parse", "mapping", "resolve", or "invoke" when the callable is invoked
StepReached(reg, call) ==
    LET args == JsonLoads(call.function.arguments) IN
    IF ~args.ok THEN "parse"
    ELSE IF args.value.type # "dict" THEN "mapping"
    ELSE IF ~GetToolFunction(reg, call.function.name).ok THEN "resolve"
    ELSE "invoke"

\* _execute_single_tool with the tool resolved before the arguments are read
ExecuteSingleToolResolvesFirst(reg, call, outcome) ==
    LET name == call.function.name
        args == JsonLoads(call.function.arguments)
        fn == GetToolFunction(reg, name)
        none == ToolMessage("", "", <<>>)
    IN
    IF ~fn.ok
    THEN [ok |-> FALSE, message |-> none, exc |-> fn.exc, steps |-> <<"resolve">>]
    ELSE IF ~args.ok
    THEN [ok |-> FALSE, message |-> none,
          exc |-> ExcFrom("ValueError",
                          <<"Invalid JSON in tool arguments: ">> \o JSONDecodeErrorMsg,
                          Exc("JSONDecodeError", JSONDecodeErrorMsg)),
          steps |-> <<"resolve", "parse">>]
    ELSE IF args.value.type # "dict"
    THEN [ok |-> FALSE, message |-> none,
          exc |-> Exc("ValueError",
                      <<"Tool arguments must be a dictionary, got ", args.value.type>>),
          steps |-> <<"resolve", "parse", "mapping">>]
    ELSE IF outcome.kind = "raise"
    THEN [ok |-> FALSE, message |-> none, exc |-> outcome.exc,
          steps |-> <<"resolve", "parse", "mapping", "invoke">>]
    ELSE LET content == SerializeResult(outcome.value) IN
         IF ~content.ok
         THEN [ok |-> FALSE, message |-> none, exc |-> content.exc,
               steps |-> <<"resolve", "parse", "mapping", "invoke">>]
         ELSE [ok |-> TRUE, message |-> ToolMessage(call.id, name, content.content),
               exc |-> Exc("", <<>>),
               steps |-> <<"resolve", "parse", "mapping", "invoke">>]

\* ToolExecutor._execute_single_tool: [ok, message, exc, steps]; not ok is
\* the exception it raises; steps are the steps it ran, in order: "parse"
\* (json.loads of the arguments), "mapping" (the isinstance check), "resolve"
\* (get_tool_function), "invoke" (the callable)
ExecuteSingleTool(reg, call, outcome) ==
    LET name == call.function.name
        args == JsonLoads(call.function.arguments)
        fn == GetToolFunction(reg, name)
        none == ToolMessage("", "", <<>>)
    IN
    IF ~args.ok
    THEN [ok |-> FALSE, message |-> none,
          exc |-> ExcFrom("ValueError",
                          <<"Invalid JSON in tool arguments: ">> \o JSONDecodeErrorMsg,
                          Exc("JSONDecodeError", JSONDecodeErrorMsg)),
          steps |-> <<"parse">>]
    ELSE IF args.value.type # "dict"
    THEN [ok |-> FALSE, message |-> none,
          exc |-> Exc("ValueError",
                      <<"Tool arguments must be a dictionary, got ", args.value.type>>),
          steps |-> <<"parse", "mapping">>]
    ELSE IF ~fn.ok
    THEN [ok |-> FALSE, message |-> none, exc |-> fn.exc,
          steps |-> <<"parse", "mapping", "resolve">>]
    ELSE IF outcome.kind = "raise"
    THEN [ok |-> FALSE, message |-> none, exc |-> outcome.exc,
          steps |-> <<"parse", "mapping", "resolve", "invoke">>]
    ELSE LET content == SerializeResult(outcome.value) IN
         IF ~content.ok
         THEN [ok |-> FALSE, message |-> none, exc |-> content.exc,
               steps |-> <<"parse", "mapping", "resolve", "invoke">>]
         ELSE [ok |-> TRUE, message |-> ToolMessage(call.id, name, content.content),
               exc |-> Exc("", <<>>),
               steps |-> <<"parse", "mapping", "resolve", "invoke">>]

\* ToolExecutor._create_error_message
CreateErrorMessage(call, error) ==
    ToolMessage(call.id, call.function.name,
        <<P("{"), S(<<"error">>), P(":"), W, S(error.msg), P(","), W,
          S(<<"error_type">>), P(":"), W, S(<<error.type>>), P(","), W,
          S(<<"tool_name">>), P(":"), W, S(<<call.function.name>>), P("}")>>)

\* the loop turn without a result for a failed call
ExecuteOneDropsFailed(reg, acc, call, outcome) ==
    LET r == ExecuteSingleTool(reg, call, outcome) IN
    IF r.ok
    THEN [results |-> Append(acc.results, r.message),
          successful_calls |-> acc.successful_calls + 1,
          failed_calls |-> acc.failed_calls,
          raised |-> NoneV]
    ELSE [results |-> acc.results,
          successful_calls |-> acc.successful_calls,
          failed_calls |-> acc.failed_calls + 1,
          raised |-> NoneV]

\* the loop turn with an except clause that takes ValueError only
ExecuteOneExceptValueError(reg, acc, call, outcome) ==
    LET r == ExecuteSingleTool(reg, call, outcome) IN
    IF r.ok
    THEN [results |-> Append(acc.results, r.message),
          successful_calls |-> acc.successful_calls + 1,
          failed_calls |-> acc.failed_calls,
          raised |-> NoneV]
    ELSE IF r.exc.type = "ValueError"
    THEN [results |-> Append(acc.results, CreateErrorMessage(call, r.exc)),
          successful_calls |-> acc.successful_calls,
          failed_calls |-> acc.failed_calls + 1,
          raised |-> NoneV]
    ELSE [results |-> acc.results,
          successful_calls |-> acc.successful_calls,
          failed_calls |-> acc.failed_calls,
          raised |-> Some(r.exc)]

\* one turn of the loop of execute_tool_calls on the accumulator
\* [results, successful_calls, failed_calls, raised]: the try block around
\* _execute_single_tool, whose except clause takes every Exception; raised
\* is None, or the exception the turn lets through
ExecuteOne(reg, acc, call, outcome) ==
    LET r == ExecuteSingleTool(reg, call, outcome) IN
    IF r.ok
    THEN [results |-> Append(acc.results, r.message),
          successful_calls |-> acc.successful_calls + 1,
          failed_calls |-> acc.failed_calls,
          raised |-> NoneV]
    ELSE [results |-> Append(acc.results, CreateErrorMessage(call, r.exc)),
          successful_calls |-> acc.successful_calls,
          failed_calls |-> acc.failed_calls + 1,
          raised |-> NoneV]

\* the rest of a turn whose success log statement raises e: turn is the
\* accumulator after results.append(tool_result) and successful_calls += 1;
\* the except clause of the same try block counts a failure and appends an
\* error message
SuccessLogRaises(turn, call, e) ==
    [results |-> Append(turn.results, CreateErrorMessage(call, e)),
     successful_calls |-> turn.successful_calls,
     failed_calls |-> turn.failed_calls + 1,
     raised |-> NoneV]

(***************************************************************************)
(* clean_json_response and LLMService._process_response.                   *)
(***************************************************************************)
LLMException(msg) == Exc("LLMException", msg)

IsOpener(tok) == IsP(tok, "{") \/ IsP(tok, "[")
IsCloser(tok) == IsP(tok, "}") \/ IsP(tok, "]")

IsFence(tok) == tok.k = "f"
FencePositions(t) == {i \in 1..Len(t) : IsFence(t[i])}
OpenerPositions(t) == {i \in 1..Len(t) : IsOpener(t[i])}
CloserPositions(t) == {i \in 1..Len(t) : IsCloser(t[i])}
Min(ns) == CHOOSE n \in ns : \A m \in ns : n <= m
Max(ns) == CHOOSE n \in ns : \A m \in ns : n >= m

\* re.search of a fenced block: fence, an optional "json", white space, the
\* shortest run up to white space and the next fence; [found, group]
FencedBlock(t) ==
    LET fs == FencePositions(t) IN
    IF Cardinality(fs) < 2 THEN [found |-> FALSE, group |-> <<>>]
    ELSE LET a == Min(fs)
             b == Min(fs \ {a})
             from == IF a + 1 < b /\ t[a + 1] = X("json") THEN a + 2 ELSE a + 1
         IN [found |-> TRUE, group |-> Strip(SubSeq(t, from, b - 1))]

\* re.sub(r",\s*<closer>", "<closer>", t) for the closer c
RECURSIVE StripTrailingCommas(_, _)
StripTrailingCommas(t, c) ==
    IF t = <<>> THEN <<>>
    ELSE LET k == SkipWs(t, 2) IN
         IF IsP(Head(t), ",") /\ k <= Len(t) /\ IsP(t[k], c)
         THEN <<t[k]>> \o StripTrailingCommas(SubSeq(t, k + 1, Len(t)), c)
         ELSE <<Head(t)>> \o StripTrailingCommas(Tail(t), c)

\* re.search(r"[{\[].*[}\]]", t, re.DOTALL): from the first opening brace or
\* bracket to the last closing one; [found, group]
BraceSpan(t) ==
    LET os == OpenerPositions(t)
        cs == CloserPositions(t)
    IN IF os = {} \/ cs = {} \/ Max(cs) < Min(os)
       THEN [found |-> FALSE, group |-> <<>>]
       ELSE [found |-> TRUE, group |-> SubSeq(t, Min(os), Max(cs))]

ParseFailedException == LLMException(<<"Failed to parse JSON response after all attempts">>)

\* clean_json_response with the search for a span before the search for a
\* fenced block
clean_json_response_span_first(response) ==
    LET none == JsonValue("", <<>>, <<>>)
        direct == JsonLoads(response)
        block == FencedBlock(response)
        fenced == JsonLoads(block.group)
        span == BraceSpan(StripTrailingCommas(StripTrailingCommas(response, "}"), "]"))
        stripped == JsonLoads(span.group)
        tried == <<"whole">> \o (IF span.found THEN <<"span">> ELSE <<>>)
    IN
    IF response = <<>>
    THEN [ok |-> FALSE, value |-> none, exc |-> LLMException(<<"Empty response received">>),
          attempts |-> <<>>]
    ELSE IF direct.ok
    THEN [ok |-> TRUE, value |-> direct.value, exc |-> Exc("", <<>>),
          attempts |-> <<"whole">>]
    ELSE IF span.found /\ stripped.ok
    THEN [ok |-> TRUE, value |-> stripped.value, exc |-> Exc("", <<>>),
          attempts |-> tried]
    ELSE IF block.found /\ fenced.ok
    THEN [ok |-> TRUE, value |-> fenced.value, exc |-> Exc("", <<>>),
          attempts |-> tried \o <<"fenced">>]
    ELSE [ok |-> FALSE, value |-> none, exc |-> ParseFailedException,
          attempts |-> tried \o (IF block.found THEN <<"fenced">> ELSE <<>>)]

\* clean_json_response(response): [ok, value, exc, attempts]; attempts names
\* the json.loads calls it made, in order: on the whole text, on the inside
\* of the fenced block, on the span
clean_json_response(response) ==
    LET none == JsonValue("", <<>>, <<>>)
        direct == JsonLoads(response)
        block == FencedBlock(response)
        fenced == JsonLoads(block.group)
        span == BraceSpan(StripTrailingCommas(StripTrailingCommas(response, "}"), "]"))
        stripped == JsonLoads(span.group)
        tried == <<"whole">> \o (IF block.found THEN <<"fenced">> ELSE <<>>)
    IN
    IF response = <<>>
    THEN [ok |-> FALSE, value |-> none, exc |-> LLMException(<<"Empty response received">>),
          attempts |-> <<>>]
    ELSE IF direct.ok
    THEN [ok |-> TRUE, value |-> direct.value, exc |-> Exc("", <<>>),
          attempts |-> <<"whole">>]
    ELSE IF block.found /\ fenced.ok
    THEN [ok |-> TRUE, value |-> fenced.value, exc |-> Exc("", <<>>),
          attempts |-> tried]
    ELSE IF span.found /\ stripped.ok
    THEN [ok |-> TRUE, value |-> stripped.value, exc |-> Exc("", <<>>),
          attempts |-> tried \o <<"span">>]
    ELSE [ok |-> FALSE, value |-> none, exc |-> ParseFailedException,
          attempts |-> tried \o (IF span.found THEN <<"span">> ELSE <<>>)]

\* what a call gives its caller: [kind: "return", is, value] or
\* [kind: "raise", exc]; is tells a message from a parsed JSON value and
\* from a list of tool messages
Return(is, value) == [kind |-> "return", is |-> is, value |-> value, exc |-> Exc("", <<>>)]
Raise(exc) == [kind |-> "raise", is |-> "", value |-> <<>>, exc |-> exc]

\* the assistant message of a completion: completion.choices[0].message
AssistantMessage(completion) ==
    [role |-> "assistant", content |-> completion.content,
     tool_calls |-> completion.tool_calls]

\* _process_response without the check for empty content
ProcessResponseRunNoEmptyCheck(completion, json_response) ==
    LET response_content == completion.content IN
    IF json_response
    THEN IF IsNone(response_content)
         THEN [result |-> Raise(LLMException(<<"LLM returned None content for JSON response">>)),
               steps |-> <<>>]
         ELSE IF JsonLoads(Get(response_content)).ok
         THEN [result |-> Return("json", JsonLoads(Get(response_content)).value),
               steps |-> <<"json.loads">>]
         ELSE LET c == clean_json_response(Get(response_content)) IN
              [result |-> IF c.ok THEN Return("json", c.value) ELSE Raise(c.exc),
               steps |-> <<"json.loads", "clean_json_response">>]
    ELSE [result |-> Return("message", AssistantMessage(completion)), steps |-> <<>>]

\* _process_response that parses content that reads as JSON in text mode too
ProcessResponseRunParsesText(completion, json_response) ==
    LET response_content == completion.content IN
    IF ~IsNone(response_content) /\ JsonLoads(Get(response_content)).ok
    THEN [result |-> Return("json", JsonLoads(Get(response_content)).value),
          steps |-> <<"json.loads">>]
    ELSE IF json_response
    THEN IF IsNone(response_content)
         THEN [result |-> Raise(LLMException(<<"LLM returned None content for JSON response">>)),
               steps |-> <<>>]
         ELSE IF Strip(Get(response_content)) = <<>>
         THEN [result |-> Raise(LLMException(<<"LLM returned empty content for JSON response">>)),
               steps |-> <<>>]
         ELSE LET c == clean_json_response(Get(response_content)) IN
              [result |-> IF c.ok THEN Return("json", c.value) ELSE Raise(c.exc),
               steps |-> <<"json.loads", "clean_json_response">>]
    ELSE [result |-> Return("message", AssistantMessage(completion)), steps |-> <<>>]

\* LLMService._process_response: [result, steps], result what it returns or
\* raises, steps the parsing it called on the content, in order
ProcessResponseRun(completion, json_response) ==
    LET response_content == completion.content IN
    IF json_response
    THEN IF IsNone(response_content)
         THEN [result |-> Raise(LLMException(<<"LLM returned None content for JSON response">>)),
               steps |-> <<>>]
         ELSE IF Strip(Get(response_content)) = <<>>
         THEN [result |-> Raise(LLMException(<<"LLM returned empty content for JSON response">>)),
               steps |-> <<>>]
         ELSE IF JsonLoads(Get(response_content)).ok
         THEN [result |-> Return("json", JsonLoads(Get(response_content)).value),
               steps |-> <<"json.loads">>]
         ELSE LET c == clean_json_response(Get(response_content)) IN
              [result |-> IF c.ok THEN Return("json", c.value) ELSE Raise(c.exc),
               steps |-> <<"json.loads", "clean_json_response">>]
    ELSE [result |-> Return("message", AssistantMessage(completion)), steps |-> <<>>]

\* what _process_response returns or raises
ProcessResponse(completion, json_response) ==
    ProcessResponseRun(completion, json_response).result

(***************************************************************************)
(* LLMClient.get_retry_decorator: the retry policy.                        *)
(***************************************************************************)
\* stop_after_attempt(RETRY_MAX_ATTEMPTS)
RETRY_MAX_ATTEMPTS == 3

\* retry_if_exception_type(RateLimitError) | (APITimeoutError) | (APIConnectionError)
Retryable(e) == e.type \in {"RateLimitError", "APITimeoutError", "APIConnectionError"}

\* a stop condition that allows one attempt more
StopAfterAttemptLate(n) == n > RETRY_MAX_ATTEMPTS

\* stop_after_attempt: no further attempt once n attempts have been made
StopAfterAttempt(n) == n >= RETRY_MAX_ATTEMPTS

\* what the retry policy does with the exception e of attempt number n:
\* "retry" (sleep, then attempt again), "reraise" (e is not one it retries)
\* or "give_up" (tenacity raises RetryError from e)
RetryDecision(e, n) ==
    IF ~Retryable(e) THEN "reraise"
    ELSE IF StopAfterAttempt(n) THEN "give_up"
    ELSE "retry"

RetryError(e) == ExcFrom("RetryError", <<"RetryError[", e.type, "]">>, e)

\* the exception the retry-wrapped call raises for the decision d on e
RaisedByRetry(d, e) == IF d = "give_up" THEN RetryError(e) ELSE e

\* LLMClient._log_retry_attempt, the before_sleep hook of the policy.
\* tenacity calls it when an attempt has failed and another will follow,
\* before it sleeps and before it counts the next attempt:
\* retry_state.attempt_number is the number n of the attempt that failed
\* and retry_state.outcome holds its exception e.  The entry leaves out
\* wait_time, the sleep wait_exponential computed.
LogRetryAttempt(log, n, e) ==
    IF n > 1
    THEN Append(log, [message |-> "Retrying LLM request", attempt |-> n,
                      exception |-> e.msg])
    ELSE log

(***************************************************************************)
(* LLMService.query_llm: its arguments.  messages is one Message or a list *)
(* of them; tools is None, one name or a list of names; temperature and    *)
(* top_p are None or a number, here in tenths (20 is 2.0).                 *)
(***************************************************************************)
Message(role, content) == [role |-> role, content |-> Some(content)]

One(x) == [t |-> "one", v |-> <<x>>]
List(xs) == [t |-> "list", v |-> xs]
IsTruthy(o) == ~IsNone(o) /\ ~(Get(o).t = "list" /\ Get(o).v = <<>>)

Tenths(n) == n * 10

\* str() of the numbers the model uses, for the messages of the errors
NumStr(n, tenths) ==
    IF tenths
    THEN CASE n = -1 -> "-0.1" [] n = 0 -> "0.0" [] n = 10 -> "1.0"
           [] n = 11 -> "1.1" [] n = 20 -> "2.0" [] n = 21 -> "2.1" [] OTHER -> "?"
    ELSE CASE n = -1 -> "-1" [] n = 0 -> "0" [] n = 1 -> "1" [] OTHER -> "?"

\* the parameter checks with the upper end of the temperature range excluded
ValidateParamsOpenRange(a) ==
    IF a.max_tokens <= 0
    THEN Some(Exc("ValueError",
                  <<"max_tokens must be positive, got ", NumStr(a.max_tokens, FALSE)>>))
    ELSE IF ~IsNone(a.temperature)
            /\ ~(Tenths(0) <= Get(a.temperature) /\ Get(a.temperature) < Tenths(2))
    THEN Some(Exc("ValueError",
                  <<"temperature must be between 0 and 2, got ",
                    NumStr(Get(a.temperature), TRUE)>>))
    ELSE IF ~IsNone(a.top_p)
            /\ ~(Tenths(0) <= Get(a.top_p) /\ Get(a.top_p) <= Tenths(1))
    THEN Some(Exc("ValueError",
                  <<"top_p must be between 0 and 1, got ", NumStr(Get(a.top_p), TRUE)>>))
    ELSE NoneV

\* the parameter checks at the head of query_llm: None, or the ValueError
ValidateParams(a) ==
    IF a.max_tokens <= 0
    THEN Some(Exc("ValueError",
                  <<"max_tokens must be positive, got ", NumStr(a.max_tokens, FALSE)>>))
    ELSE IF ~IsNone(a.temperature)
            /\ ~(Tenths(0) <= Get(a.temperature) /\ Get(a.temperature) <= Tenths(2))
    THEN Some(Exc("ValueError",
                  <<"temperature must be between 0 and 2, got ",
                    NumStr(Get(a.temperature), TRUE)>>))
    ELSE IF ~IsNone(a.top_p)
            /\ ~(Tenths(0) <= Get(a.top_p) /\ Get(a.top_p) <= Tenths(1))
    THEN Some(Exc("ValueError",
                  <<"top_p must be between 0 and 1, got ", NumStr(Get(a.top_p), TRUE)>>))
    ELSE NoneV

\* LLMService._normalize_messages
NormalizeMessages(messages) ==
    IF messages.t = "one" THEN <<messages.v[1]>> ELSE messages.v

\* LLMService._prepare_tools: [ok, schemas, exc]
PrepareTools(reg, tools) ==
    GetToolSchemas(reg, IF tools.t = "one" THEN <<tools.v[1]>> ELSE tools.v)

\* llm_kwargs of query_llm: the extra keyword parameters, then temperature
\* and top_p when given
LlmKwargs(a) == [extra |-> a.kwargs, temperature |-> a.temperature, top_p |-> a.top_p]

\* request_params of _make_llm_request; tools and response_format are keys
\* only when tools is truthy and json_response is set
MakeRequestParams(model, messages, tools, json_response, max_tokens, kw) ==
    [model |-> model, messages |-> messages, max_tokens |-> max_tokens,
     kwargs |-> kw,
     tools |-> IF ~IsNone(tools) /\ Get(tools) # <<>> THEN tools ELSE NoneV,
     response_format |-> IF json_response THEN Some("json_object") ELSE NoneV]

\* the follow-up messages without the assistant message
FollowUpMessagesNoAssistant(messages, initial_completion, tool_results) ==
    messages \o tool_results

\* request_params of _handle_tool_workflow: the original messages, the
\* assistant message of the initial completion, the tool results
FollowUpMessages(messages, initial_completion, tool_results) ==
    messages \o <<AssistantMessage(initial_completion)>> \o tool_results

\* the follow-up request without the keyword parameters
FollowUpRequestParamsNoKwargs(model, messages, json_response, max_tokens, kw) ==
    [model |-> model, messages |-> messages, max_tokens |-> max_tokens,
     kwargs |-> [extra |-> <<>>, temperature |-> NoneV, top_p |-> NoneV],
     tools |-> NoneV,
     response_format |-> IF json_response THEN Some("json_object") ELSE NoneV]

\* the follow-up request with the schema of a tool
FollowUpRequestParamsWithTools(model, messages, json_response, max_tokens, kw) ==
    [model |-> model, messages |-> messages, max_tokens |-> max_tokens,
     kwargs |-> kw, tools |-> Some(<<ToolSchema("EchoTool")>>),
     response_format |-> IF json_response THEN Some("json_object") ELSE NoneV]

\* the caller's messages with the assistant message and the tool results
\* appended to them when they are a list
CallerMessagesAppendedTo(messages, initial_completion, tool_results) ==
    IF messages.t = "list"
    THEN List(messages.v \o <<AssistantMessage(initial_completion)>> \o tool_results)
    ELSE messages

\* what the caller's messages argument holds after _handle_tool_workflow:
\* message_dicts is a new list of dumps, and the assistant message and the
\* tool results are appended to it, not to the list passed in
CallerMessagesAfterWorkflow(messages, initial_completion, tool_results) == messages

FollowUpRequestParams(model, messages, json_response, max_tokens, kw) ==
    [model |-> model, messages |-> messages, max_tokens |-> max_tokens,
     kwargs |-> kw, tools |-> NoneV,
     response_format |-> IF json_response THEN Some("json_object") ELSE NoneV]

\* except clauses that wrap every exception
WrapExceptionAlways(e) ==
    ExcFrom("LLMException", <<"Failed to query LLM: ">> \o e.msg, e)

\* the except clauses of query_llm: an LLMException passes, any other
\* exception becomes an LLMException raised from it
WrapException(e) ==
    IF e.type = "LLMException" THEN e
    ELSE ExcFrom("LLMException", <<"Failed to query LLM: ">> \o e.msg, e)

(***************************************************************************)
(* The environment: what callers pass, what the endpoint answers, what     *)
(* the tool callables do.                                                  *)
(***************************************************************************)
ModelName == "model"

UserMessage == Message("user", <<X("hello")>>)
SystemMessage == Message("system", <<X("be brief")>>)

MessagesArgs == {One(UserMessage), List(<<SystemMessage, UserMessage>>)}
ToolsArgs ==
    {NoneV, Some(One("EchoTool")), Some(List(<<"echo_tool">>)),
     Some(List(<<"EchoTool", "BrokenTool">>))}
MaxTokensArgs == {-1, 0, 1}
TemperatureArgs == {NoneV, Some(-1), Some(0), Some(20), Some(21)}
TopPArgs == {NoneV, Some(-1), Some(0), Some(10), Some(11)}

\* the extra keyword parameters: none, or seed=7
KwargsArgs == {<<>>, <<[key |-> "seed", value |-> "7"]>>}

AllArgs ==
    [messages : MessagesArgs, json_response : BOOLEAN, tools : ToolsArgs,
     max_tokens : MaxTokensArgs, temperature : TemperatureArgs, top_p : TopPArgs,
     kwargs : KwargsArgs]

\* the arguments the model passes: every combination of max_tokens,
\* temperature and top_p with one message, text mode and no tools; and every
\* combination of messages, json_response and tools with max_tokens 0 or 1,
\* temperature absent or 2.1, and top_p 1.0, all without extra keyword
\* parameters; and one query in JSON mode with a tool and seed=7
PlainFlow(a) == a.messages = One(UserMessage) /\ ~a.json_response /\ a.tools = NoneV
PlainParams(a) ==
    a.max_tokens \in {0, 1} /\ a.temperature \in {NoneV, Some(21)} /\ a.top_p = Some(10)
WithKwargs(a) ==
    /\ a.kwargs # <<>>
    /\ a.messages = One(UserMessage)
    /\ a.json_response
    /\ a.tools = Some(One("EchoTool"))
    /\ a.max_tokens = 1
    /\ a.temperature = Some(0)
    /\ a.top_p = NoneV
QueryArgs ==
    {a \in AllArgs : (a.kwargs = <<>> /\ (PlainFlow(a) \/ PlainParams(a))) \/ WithKwargs(a)}

\* the arguments before any query
NoArgs ==
    [messages |-> List(<<>>), json_response |-> FALSE, tools |-> NoneV,
     max_tokens |-> 1, temperature |-> NoneV, top_p |-> NoneV, kwargs |-> <<>>]

\* argument texts of tool calls: an object, an array, an unreadable text
ArgsObject == <<P("{"), S(<<"x">>), P(":"), W, N("5"), P("}")>>
ArgsArray == <<P("["), N("5"), P("]")>>
ArgsBroken == <<P("{"), S(<<"x">>), P(":")>>
ArgumentTexts == {ArgsObject, ArgsArray, ArgsBroken}

\* names a tool call may carry: a registered class name, and the function
\* name of its schema, which is no key of the registry
CallNames == {"EchoTool", "echo_tool"}
CallIds == <<"call_1", "call_2", "call_3", "call_4">>

\* the batches of n tool calls, the i-th with the i-th id
BatchesOf(n) ==
    {[i \in 1..n |-> ToolCall(CallIds[i], c[i][1], c[i][2])] :
        c \in [1..n -> CallNames \X ArgumentTexts]}
Batches == UNION {BatchesOf(n) : n \in 0..MaxCalls}

\* what an invoked callable does: it returns a dict, it returns an object
\* whose json() raises, or it raises
EchoValue == PyJson(JsonLoads(ArgsObject).value)
BadJsonObject == PyObject("Model", {"json"}, TRUE, <<>>, <<"Model()">>)
ToolOutcomes ==
    {Returns(EchoValue), Returns(BadJsonObject), Raises(Exc("RuntimeError", <<"bad">>))}

\* what a callable may return: a value of each JSON-compatible type, an
\* object with a json() that returns or raises, an object with a
\* model_dump(), any other object; or it raises
ReturnValues ==
    {EchoValue,
     PyJson(JsonValue("list", <<>>, <<P("["), N("2"), P(","), S(<<"b">>), P("]")>>)),
     PyJson(JsonValue("str", <<>>, <<S(<<"string result">>)>>)),
     PyJson(JsonValue("int", <<>>, <<N("42")>>)),
     PyJson(JsonValue("float", <<>>, <<NFloat("1", "5")>>)),
     PyJson(JsonValue("bool", <<>>, <<L("true")>>)),
     PyJson(JsonValue("NoneType", <<>>, <<L("null")>>)),
     BadJsonObject,
     PyObject("Model", {"json"}, FALSE, <<P("{"), S(<<"m">>), P(":"), N("1"), P("}")>>,
              <<"Model()">>),
     PyObject("Dumped", {"model_dump"}, FALSE, <<P("{"), S(<<"d">>), P(":"), N("1"), P("}")>>,
              <<"Dumped()">>),
     PyObject("object", {}, FALSE, <<>>, <<"<object>">>)}
ExecutorOutcomes ==
    {Returns(v) : v \in ReturnValues} \cup {Raises(Exc("RuntimeError", <<"bad">>))}

\* contents of a completion: None, prose, a JSON object, a fenced JSON
\* object, the empty text, white space only, a JSON number
JsonObjectText == <<P("{"), S(<<"a">>), P(":"), W, N("1"), P("}")>>
Contents ==
    {NoneV, Some(<<X("ok")>>), Some(JsonObjectText),
     Some(<<F, X("json"), W>> \o JsonObjectText \o <<W, F>>),
     Some(<<>>), Some(<<W>>), Some(<<N("42")>>)}

Completion(content, tool_calls) == [content |-> content, tool_calls |-> tool_calls]

\* completions without and with tool calls
PlainCompletions == {Completion(c, tc) : c \in Contents, tc \in {NoneV, Some(<<>>)}}
ToolCompletions == {Completion(NoneV, Some(b)) : b \in Batches \ {<<>>}}
InitialCompletions == PlainCompletions \cup ToolCompletions
FollowUpCompletions ==
    {Completion(c, NoneV) : c \in Contents}
    \cup {Completion(Some(<<X("ok")>>),
                     Some(<<ToolCall(CallIds[1], "EchoTool", ArgsObject)>>))}

\* texts given to clean_json_response: up to MaxSegments segments joined by
\* white space, a segment being prose, a bare text or a text in a fenced
\* block tagged json; the texts are a JSON object, a JSON array, an object
\* with a trailing comma, a JSON number and the opening of an object
ArrayText == <<P("["), N("2"), P("]")>>
TrailingCommaText == <<P("{"), S(<<"b">>), P(":"), W, N("3"), P(","), P("}")>>
NumberText == <<N("42")>>
SampleTexts == {JsonObjectText, ArrayText, TrailingCommaText, NumberText, ArgsBroken}

Prose == [kind |-> "prose", body |-> <<X("Here")>>]
Bare(t) == [kind |-> "bare", body |-> t]
Fenced(t) == [kind |-> "fenced", body |-> t]
Segments == {Prose} \cup {Bare(t) : t \in SampleTexts} \cup {Fenced(t) : t \in SampleTexts}
SegmentLists == UNION {[1..n -> Segments] : n \in 1..MaxSegments}

SegmentText(seg) ==
    IF seg.kind = "fenced" THEN <<F, X("json"), W>> \o seg.body \o <<W, F>> ELSE seg.body

RECURSIVE TextOf(_)
TextOf(segs) ==
    IF segs = <<>> THEN <<>>
    ELSE IF Len(segs) = 1 THEN SegmentText(segs[1])
    ELSE SegmentText(Head(segs)) \o <<W>> \o TextOf(Tail(segs))

\* the tool classes that may be alive, and the lists
\* AbstractTool.__subclasses__() may give: up to MaxClasses of them, in any
\* order
ToolClasses == {"EchoTool", "AddTool", "BrokenTool", "SchemalessTool"}
ClassLists ==
    {cs \in UNION {[1..n -> ToolClasses] : n \in 0..MaxClasses} :
        \A i, j \in 1..Len(cs) : i # j => cs[i] # cs[j]}

\* the accesses to the registry and the names they ask for
AccessMethods == {"tools", "get_tool", "get_tool_schemas", "get_tool_function",
                  "list_tool_names"}
AccessNames == {"EchoTool", "BrokenTool"}
\* the lists of names get_tool_schemas is asked for; the other accesses take
\* the lists of one name
AccessNameLists == UNION {[1..n -> AccessNames \cup {"AddTool"}] : n \in 0..2}

\* the threads that may call the registry at the same time
Threads == {"t1", "t2", "t3"}

\* errors of one attempt of a request: the three the policy retries, and
\* one it does not
AttemptErrors ==
    {Exc("RateLimitError", <<"rate limited">>),
     Exc("APITimeoutError", <<"timed out">>),
     Exc("APIConnectionError", <<"connection error">>),
     Exc("BadRequestError", <<"bad request">>)}

\* errors of one attempt of the follow-up request: one the policy retries
\* and one it does not
FollowUpAttemptErrors ==
    {Exc("RateLimitError", <<"rate limited">>),
     Exc("BadRequestError", <<"bad request">>)}

\* the head of query_llm with the parameter checks after the preparation of
\* the tools
QueryLlmHeadChecksLate(reg, a) ==
    LET invalid == ValidateParams(a)
        normalized_messages == NormalizeMessages(a.messages)
        prepared == PrepareTools(reg, Get(a.tools))
    IN
    IF IsTruthy(a.tools) /\ ~prepared.ok
    THEN [kind |-> "raise", exc |-> prepared.exc, lookups |-> 1, request |-> NoneV]
    ELSE IF ~IsNone(invalid)
    THEN [kind |-> "reject", exc |-> Get(invalid),
          lookups |-> IF IsTruthy(a.tools) THEN 1 ELSE 0, request |-> NoneV]
    ELSE [kind |-> "request", exc |-> Exc("", <<>>),
          lookups |-> IF IsTruthy(a.tools) THEN 1 ELSE 0,
          request |-> Some(MakeRequestParams(ModelName, normalized_messages,
                               IF IsTruthy(a.tools) THEN Some(prepared.schemas) ELSE NoneV,
                               a.json_response, a.max_tokens, LlmKwargs(a)))]

(***************************************************************************)
(* query_llm up to its first request: the parameter checks, which stand    *)
(* before the try block, then _normalize_messages, _prepare_tools and the  *)
(* request_params of _make_llm_request.  It gives "reject" with the        *)
(* ValueError of a check, "raise" with the exception raised in the try     *)
(* block, or "request" with the request to send; lookups counts its calls  *)
(* of get_tool_schemas.                                                    *)
(***************************************************************************)
QueryLlmHead(reg, a) ==
    LET invalid == ValidateParams(a)
        normalized_messages == NormalizeMessages(a.messages)
        prepared == PrepareTools(reg, Get(a.tools))
    IN
    IF ~IsNone(invalid)
    THEN [kind |-> "reject", exc |-> Get(invalid), lookups |-> 0, request |-> NoneV]
    ELSE IF ~IsTruthy(a.tools)
    THEN [kind |-> "request", exc |-> Exc("", <<>>), lookups |-> 0,
          request |-> Some(MakeRequestParams(ModelName, normalized_messages, NoneV,
                               a.json_response, a.max_tokens, LlmKwargs(a)))]
    ELSE IF ~prepared.ok
    THEN [kind |-> "raise", exc |-> prepared.exc, lookups |-> 1, request |-> NoneV]
    ELSE [kind |-> "request", exc |-> Exc("", <<>>), lookups |-> 1,
          request |-> Some(MakeRequestParams(ModelName, normalized_messages,
                               Some(prepared.schemas), a.json_response,
                               a.max_tokens, LlmKwargs(a)))]

\* the test of the tool calls as a test of presence only
HasToolCallsIfPresent(c) == ~IsNone(c.tool_calls)

\* completion.choices[0].message.tool_calls is truthy: present and not empty
HasToolCalls(c) == ~IsNone(c.tool_calls) /\ Get(c.tool_calls) # <<>>

(***************************************************************************)
(* The state.                                                              *)
(***************************************************************************)
VARIABLES
    pc,               \* "start", "initial", "tools", "followup", "done"
    entry,            \* "", "query_llm" or "handle_tool_calls": what was called
    args,             \* the arguments of query_llm
    registry,         \* the ToolRegistry
    lookups,          \* calls of get_tool_schemas made by the query
    requests,         \* request_params of the logical requests sent, in order
    attempt_number,   \* attempts made of the request in flight, or of the
                      \* request that failed
    last_error,       \* None, or the exception of its last failed attempt
    retry_log,        \* the "Retrying LLM request" entries logged for it
    initial_completion,  \* None, or the completion of the initial request
    final_completion,    \* None, or the last completion received
    parse_steps,         \* the parsing _process_response called, in order
    tool_calls,       \* the batch execute_tool_calls was given
    call_index,       \* calls of the batch executed so far
    acc,              \* results, successful_calls, failed_calls of the batch
    outcomes,         \* what the callable of each executed call did
    executions,       \* times execute_tool_calls has been called
    invoked,          \* ids of the calls whose callable was invoked, in order
    steps_run,        \* per call executed, the steps of _execute_single_tool it ran
    in_flight,        \* positions of the calls whose callable is awaited
    raised,           \* None, or the exception raised inside the try block
                      \* of query_llm or out of execute_tool_calls
    outcome,          \* None, or what the call returned or raised to its caller
    segments,         \* the segments of the text given to clean_json_response
    cleaned,          \* None, or what clean_json_response gave for it
    classes,          \* AbstractTool.__subclasses__(), as it is now
    discovered_from,  \* the classes _collect_tools last went through
    discoveries,      \* runs of _collect_tools since construction or reset()
    accesses,         \* accesses to the registry since construction or reset()
    answer,           \* what the last access returned or raised
    threads           \* per thread: where it is in get_tool and what it got

vars ==
    <<pc, entry, args, registry, lookups, requests, attempt_number, last_error,
      retry_log, initial_completion, final_completion, parse_steps, tool_calls, call_index, acc, outcomes, executions,
      invoked, steps_run, in_flight, raised, outcome, segments, cleaned, classes, discovered_from,
      discoveries, accesses, answer, threads>>

execVars ==
    <<tool_calls, call_index, acc, outcomes, executions, invoked, steps_run, in_flight>>
parseVars == <<final_completion, parse_steps>>
jsonVars == <<segments, cleaned>>
discoveryVars == <<classes, discovered_from, discoveries, accesses, answer, threads>>
retryVars == <<attempt_number, last_error, retry_log>>
requestVars ==
    <<pc, entry, args, lookups, requests, initial_completion, execVars, retryVars,
      parseVars, raised, outcome>>

EmptyAcc ==
    [results |-> <<>>, successful_calls |-> 0, failed_calls |-> 0, raised |-> NoneV]

\* no call of the service has been made
NoRequest ==
    /\ pc = "start"
    /\ entry = ""
    /\ args = NoArgs
    /\ lookups = 0
    /\ requests = <<>>
    /\ attempt_number = 0
    /\ last_error = NoneV
    /\ retry_log = <<>>
    /\ initial_completion = NoneV
    /\ final_completion = NoneV
    /\ parse_steps = <<>>
    /\ tool_calls = <<>>
    /\ call_index = 0
    /\ acc = EmptyAcc
    /\ outcomes = <<>>
    /\ executions = 0
    /\ invoked = <<>>
    /\ steps_run = <<>>
    /\ in_flight = <<>>
    /\ raised = NoneV
    /\ outcome = NoneV

\* no text has been given to clean_json_response
NoText ==
    /\ segments = <<>>
    /\ cleaned = NoneV

NoAnswer ==
    [method |-> "", asked |-> <<>>, ok |-> TRUE, names |-> <<>>, schemas |-> <<>>,
     exc |-> Exc("", <<>>)]

\* a thread that has not called the registry
IdleThread == [pc |-> "idle", name |-> "", index |-> 0, fast |-> FALSE, found |-> FALSE]

\* the registry has not been looked at on its own
NoAccess ==
    /\ discovered_from = <<>>
    /\ discoveries = 0
    /\ accesses = 0
    /\ answer = NoAnswer
    /\ threads = [t \in Threads |-> IdleThread]

\* the state once LLMService() is constructed: its __init__ lists the tool
\* names, which initializes the registry
Init ==
    /\ NoRequest
    /\ registry = EnsureInitialized(NewRegistry)
    /\ NoText
    /\ classes = Subclasses
    /\ NoAccess

\* the call returns, or raises outside any try block
Finish(o) ==
    /\ pc' = "done"
    /\ outcome' = Some(o)
    /\ raised' = NoneV

\* query_llm ends inside its try block with o: a value it returns, or an
\* exception that goes through its except clauses
FinishInTry(o) ==
    /\ pc' = "done"
    /\ IF o.kind = "raise"
       THEN /\ outcome' = Some(Raise(WrapException(o.exc)))
            /\ raised' = Some(o.exc)
       ELSE /\ outcome' = Some(o)
            /\ raised' = NoneV

\* the retry state of a request that returned is dropped
ClearRetry ==
    /\ attempt_number' = 0
    /\ last_error' = NoneV
    /\ retry_log' = <<>>

(***************************************************************************)
(* query_llm(a) is called and runs up to its first request.                *)
(***************************************************************************)
QueryLlm(a) ==
    /\ pc = "start"
    /\ UNCHANGED <<jsonVars, discoveryVars>>
    /\ args' = a
    /\ entry' = "query_llm"
    /\ UNCHANGED <<initial_completion, execVars, retryVars, parseVars>>
    /\ LET h == QueryLlmHead(registry, a) IN
       /\ lookups' = h.lookups
       /\ registry' = IF h.lookups > 0 THEN EnsureInitialized(registry) ELSE registry
       /\ CASE h.kind = "reject" -> Finish(Raise(h.exc)) /\ UNCHANGED requests
            [] h.kind = "raise" -> FinishInTry(Raise(h.exc)) /\ UNCHANGED requests
            [] OTHER -> /\ requests' = <<Get(h.request)>>
                        /\ pc' = "initial"
                        /\ UNCHANGED <<raised, outcome>>

\* a retry of the follow-up request that starts at the tool execution again
AttemptFailsRerunsTools(e) ==
    /\ pc \in {"initial", "followup"}
    /\ pc = "followup" => e \in FollowUpAttemptErrors
    /\ UNCHANGED <<jsonVars, discoveryVars>>
    /\ UNCHANGED <<entry, args, registry, lookups, initial_completion, tool_calls,
                   outcomes, invoked, steps_run, in_flight, parseVars>>
    /\ attempt_number' = attempt_number + 1
    /\ last_error' = Some(e)
    /\ LET d == RetryDecision(e, attempt_number + 1) IN
       IF d = "retry"
       THEN /\ retry_log' = LogRetryAttempt(retry_log, attempt_number + 1, e)
            /\ UNCHANGED <<raised, outcome>>
            /\ IF pc = "followup"
               THEN /\ pc' = "tools"
                    /\ requests' = SubSeq(requests, 1, 1)
                    /\ call_index' = 0
                    /\ acc' = EmptyAcc
                    /\ executions' = executions + 1
               ELSE UNCHANGED <<pc, requests, call_index, acc, executions>>
       ELSE /\ UNCHANGED <<retry_log, requests, call_index, acc, executions>>
            /\ FinishInTry(Raise(RaisedByRetry(d, e)))

(***************************************************************************)
(* One attempt of the retry-wrapped request in flight fails with e: the    *)
(* policy sleeps and attempts again, or the call raises.                   *)
(***************************************************************************)
AttemptFails(e) ==
    /\ pc \in {"initial", "followup"}
    /\ pc = "followup" => e \in FollowUpAttemptErrors
    /\ UNCHANGED <<jsonVars, discoveryVars>>
    /\ UNCHANGED <<entry, args, registry, lookups, requests, initial_completion,
                   execVars, parseVars>>
    /\ attempt_number' = attempt_number + 1
    /\ last_error' = Some(e)
    /\ LET d == RetryDecision(e, attempt_number + 1) IN
       IF d = "retry"
       THEN /\ retry_log' = LogRetryAttempt(retry_log, attempt_number + 1, e)
            /\ UNCHANGED <<pc, raised, outcome>>
       ELSE /\ UNCHANGED retry_log
            /\ FinishInTry(Raise(RaisedByRetry(d, e)))

(***************************************************************************)
(* An attempt of the initial request returns the completion c: query_llm   *)
(* either enters _handle_tool_workflow, which calls execute_tool_calls, or *)
(* goes to _process_response.                                              *)
(***************************************************************************)
InitialCompletes(c) ==
    /\ pc = "initial"
    /\ UNCHANGED <<jsonVars, discoveryVars>>
    /\ initial_completion' = Some(c)
    /\ final_completion' = Some(c)
    /\ ClearRetry
    /\ UNCHANGED <<entry, args, registry, lookups, requests, invoked, steps_run,
                   in_flight, outcomes>>
    /\ IF HasToolCalls(c)
       THEN /\ pc' = "tools"
            /\ tool_calls' = Get(c.tool_calls)
            /\ call_index' = 0
            /\ acc' = EmptyAcc
            /\ executions' = executions + 1
            /\ UNCHANGED <<raised, outcome, parse_steps>>
       ELSE /\ FinishInTry(ProcessResponse(c, args.json_response))
            /\ parse_steps' = ProcessResponseRun(c, args.json_response).steps
            /\ UNCHANGED <<tool_calls, call_index, acc, executions>>

(***************************************************************************)
(* LLMService.handle_tool_calls(batch): execute_tool_calls called by a     *)
(* caller of the service; an empty batch returns at once.                  *)
(***************************************************************************)
HandleToolCalls(batch) ==
    /\ pc = "start"
    /\ UNCHANGED <<jsonVars, discoveryVars>>
    /\ entry' = "handle_tool_calls"
    /\ tool_calls' = batch
    /\ call_index' = 0
    /\ acc' = EmptyAcc
    /\ executions' = executions + 1
    /\ UNCHANGED <<args, registry, lookups, requests, initial_completion, invoked, steps_run,
                   in_flight,
                   outcomes, retryVars, parseVars>>
    /\ IF batch = <<>>
       THEN Finish(Return("tool_messages", <<>>))
       ELSE /\ pc' = "tools"
            /\ UNCHANGED <<raised, outcome>>

(***************************************************************************)
(* One turn of the loop of execute_tool_calls: the next call of the batch  *)
(* is executed and its result, or its error message, appended.  An         *)
(* exception the turn lets through ends execute_tool_calls and its caller. *)
(***************************************************************************)
ExecuteToolCall(o) ==
    /\ pc = "tools"
    /\ UNCHANGED <<jsonVars, discoveryVars>>
    /\ call_index < Len(tool_calls)
    /\ UNCHANGED <<entry, args, lookups, requests, retryVars, initial_completion,
                   tool_calls, executions, parseVars, in_flight>>
    /\ LET call == tool_calls[call_index + 1]
           step == StepReached(registry, call)
           turn == ExecuteOne(registry, acc, call, o)
           run == ExecuteSingleTool(registry, call, o)
       IN /\ (o = NotInvoked) <=> (step # "invoke")
          /\ acc' = turn
          /\ outcomes' = Append(outcomes, o)
          /\ call_index' = call_index + 1
          /\ steps_run' = Append(steps_run, run.steps)
          /\ invoked' = IF \E k \in 1..Len(run.steps) : run.steps[k] = "invoke"
                        THEN Append(invoked, call.id) ELSE invoked
          /\ registry' = IF \E k \in 1..Len(run.steps) : run.steps[k] = "resolve"
                         THEN EnsureInitialized(registry) ELSE registry
          /\ IF IsNone(turn.raised)
             THEN UNCHANGED <<pc, raised, outcome>>
             ELSE IF entry = "handle_tool_calls"
                  THEN /\ pc' = "done"
                       /\ outcome' = Some(Raise(Get(turn.raised)))
                       /\ raised' = turn.raised
                  ELSE FinishInTry(Raise(Get(turn.raised)))

(***************************************************************************)
(* execute_tool_calls returns its results: to the caller of                *)
(* handle_tool_calls, or to _handle_tool_workflow, which builds the        *)
(* follow-up request from them.                                            *)
(***************************************************************************)
ExecuteReturns ==
    /\ pc = "tools"
    /\ UNCHANGED <<jsonVars, discoveryVars>>
    /\ call_index = Len(tool_calls)
    /\ UNCHANGED <<entry, registry, lookups, initial_completion, execVars,
                   retryVars, parseVars>>
    /\ IF entry = "handle_tool_calls"
       THEN /\ Finish(Return("tool_messages", acc.results))
            /\ UNCHANGED <<requests, args>>
       ELSE /\ args' = [args EXCEPT !.messages =
                           CallerMessagesAfterWorkflow(args.messages,
                               Get(initial_completion), acc.results)]
            /\ requests' =
                 Append(requests,
                        FollowUpRequestParams(ModelName,
                            FollowUpMessages(NormalizeMessages(args.messages),
                                             Get(initial_completion), acc.results),
                            args.json_response, args.max_tokens, LlmKwargs(args)))
            /\ pc' = "followup"
            /\ UNCHANGED <<raised, outcome>>

\* the follow-up completion handled as the initial one is: its tool calls
\* start another tool round
FollowUpCompletesAgain(c) ==
    /\ pc = "followup"
    /\ UNCHANGED <<jsonVars, discoveryVars>>
    /\ ClearRetry
    /\ final_completion' = Some(c)
    /\ UNCHANGED <<entry, args, registry, lookups, requests, initial_completion,
                   invoked, steps_run, in_flight, outcomes>>
    /\ IF HasToolCalls(c)
       THEN /\ pc' = "tools"
            /\ tool_calls' = Get(c.tool_calls)
            /\ call_index' = 0
            /\ acc' = EmptyAcc
            /\ executions' = executions + 1
            /\ UNCHANGED <<raised, outcome, parse_steps>>
       ELSE /\ FinishInTry(ProcessResponse(c, args.json_response))
            /\ parse_steps' = ProcessResponseRun(c, args.json_response).steps
            /\ UNCHANGED <<tool_calls, call_index, acc, executions>>

(***************************************************************************)
(* An attempt of the follow-up request returns the completion c, which     *)
(* goes to _process_response.                                              *)
(***************************************************************************)
FollowUpCompletes(c) ==
    /\ pc = "followup"
    /\ UNCHANGED <<jsonVars, discoveryVars>>
    /\ ClearRetry
    /\ final_completion' = Some(c)
    /\ FinishInTry(ProcessResponse(c, args.json_response))
    /\ parse_steps' = ProcessResponseRun(c, args.json_response).steps
    /\ UNCHANGED <<entry, args, registry, lookups, requests, initial_completion,
                   execVars>>

Next ==
    \/ \E a \in QueryArgs : QueryLlm(a)
    \/ \E e \in AttemptErrors : AttemptFails(e)
    \/ \E c \in InitialCompletions : InitialCompletes(c)
    \/ \E b \in Batches : HandleToolCalls(b)
    \/ \E o \in ToolOutcomes \cup {NotInvoked} : ExecuteToolCall(o)
    \/ ExecuteReturns
    \/ \E c \in FollowUpCompletions : FollowUpCompletes(c)

Spec == Init /\ [][Next]_vars

(***************************************************************************)
(* clean_json_response on its own: a text is given, the function applied.  *)
(***************************************************************************)
InitJson ==
    /\ NoRequest
    /\ registry = EnsureInitialized(NewRegistry)
    /\ segments \in SegmentLists
    /\ cleaned = NoneV
    /\ classes = Subclasses
    /\ NoAccess

CleanJsonResponse ==
    /\ IsNone(cleaned)
    /\ cleaned' = Some(clean_json_response(TextOf(segments)))
    /\ UNCHANGED <<requestVars, registry, segments, discoveryVars>>

NextJson == CleanJsonResponse

SpecJson == InitJson /\ [][NextJson]_vars

(***************************************************************************)
(* The ToolExecutor on its own: execute_tool_calls is given a batch and    *)
(* the callables return every kind of value.                               *)
(***************************************************************************)
\* a ToolExecutor is constructed where nothing has read the registry yet
InitExecutor ==
    /\ NoRequest
    /\ registry = NewRegistry
    /\ NoText
    /\ classes = Subclasses
    /\ NoAccess

NextExecutor ==
    \/ \E b \in Batches : HandleToolCalls(b)
    \/ \E o \in ExecutorOutcomes \cup {NotInvoked} : ExecuteToolCall(o)
    \/ ExecuteReturns

SpecExecutor == InitExecutor /\ [][NextExecutor]_vars

(***************************************************************************)
(* The ToolExecutor with a success log statement that may raise: the       *)
(* logger.info after results.append sits in the try block of the turn.     *)
(***************************************************************************)
LogError == Exc("RuntimeError", <<"log failed">>)

\* a turn for a call that succeeds, and then its success log raises
ExecuteToolCallLogRaises(o) ==
    /\ pc = "tools"
    /\ UNCHANGED <<jsonVars, discoveryVars>>
    /\ call_index < Len(tool_calls)
    /\ UNCHANGED <<entry, args, lookups, requests, retryVars, initial_completion,
                   tool_calls, executions, parseVars, in_flight, pc, raised, outcome>>
    /\ LET call == tool_calls[call_index + 1]
           run == ExecuteSingleTool(registry, call, o)
       IN /\ o # NotInvoked
          /\ run.ok
          /\ acc' = SuccessLogRaises(ExecuteOne(registry, acc, call, o), call, LogError)
          /\ outcomes' = Append(outcomes, o)
          /\ call_index' = call_index + 1
          /\ steps_run' = Append(steps_run, run.steps)
          /\ invoked' = Append(invoked, call.id)
          /\ registry' = EnsureInitialized(registry)

NextExecutorLog ==
    \/ \E b \in Batches : HandleToolCalls(b)
    \/ \E o \in ToolOutcomes \cup {NotInvoked} : ExecuteToolCall(o)
    \/ \E o \in ToolOutcomes : ExecuteToolCallLogRaises(o)
    \/ ExecuteReturns

SpecExecutorLog == InitExecutor /\ [][NextExecutorLog]_vars

(***************************************************************************)
(* The ToolExecutor with the await of the callable as two steps: the       *)
(* callable is started, and later it ends with its outcome.  While the     *)
(* coroutine of execute_tool_calls is suspended at the await, its loop     *)
(* does not go on.                                                         *)
(***************************************************************************)
awaitFrame ==
    <<jsonVars, discoveryVars, entry, args, lookups, requests, retryVars,
      initial_completion, tool_calls, executions, parseVars, raised, outcome>>

\* callables started while another call of the batch is awaited
CallableStartedWhileAwaiting ==
    /\ pc \in {"tools", "awaiting"}
    /\ call_index + Len(in_flight) < Len(tool_calls)
    /\ StepReached(registry, tool_calls[call_index + Len(in_flight) + 1]) = "invoke"
    /\ in_flight' = Append(in_flight, call_index + Len(in_flight) + 1)
    /\ invoked' = Append(invoked, tool_calls[call_index + Len(in_flight) + 1].id)
    /\ registry' = EnsureInitialized(registry)
    /\ pc' = "awaiting"
    /\ UNCHANGED <<awaitFrame, call_index, acc, outcomes, steps_run>>

\* _execute_single_tool reaches await tool_function(**args) for the next
\* call of the batch
CallableStarted ==
    /\ pc = "tools"
    /\ call_index < Len(tool_calls)
    /\ StepReached(registry, tool_calls[call_index + 1]) = "invoke"
    /\ in_flight' = Append(in_flight, call_index + 1)
    /\ invoked' = Append(invoked, tool_calls[call_index + 1].id)
    /\ registry' = EnsureInitialized(registry)
    /\ pc' = "awaiting"
    /\ UNCHANGED <<awaitFrame, call_index, acc, outcomes, steps_run>>

\* the awaited callable ends with o and the turn of its call is completed
CallableEnds(o) ==
    /\ pc = "awaiting"
    /\ o # NotInvoked
    /\ LET call == tool_calls[Head(in_flight)] IN
       /\ acc' = ExecuteOne(registry, acc, call, o)
       /\ steps_run' = Append(steps_run, ExecuteSingleTool(registry, call, o).steps)
    /\ outcomes' = Append(outcomes, o)
    /\ call_index' = call_index + 1
    /\ in_flight' = Tail(in_flight)
    /\ pc' = IF Tail(in_flight) = <<>> THEN "tools" ELSE "awaiting"
    /\ UNCHANGED <<awaitFrame, invoked, registry>>

NextAwait ==
    \/ \E b \in Batches : HandleToolCalls(b)
    \/ CallableStarted
    \/ \E o \in ToolOutcomes : CallableEnds(o)
    \/ ExecuteToolCall(NotInvoked)
    \/ ExecuteReturns

SpecAwait == InitExecutor /\ [][NextAwait]_vars

(***************************************************************************)
(* The ToolRegistry on its own: accesses one after the other, reset(), and *)
(* tool classes that come and go.                                          *)
(***************************************************************************)
InitRegistry ==
    /\ NoRequest
    /\ NoText
    /\ registry = NewRegistry
    /\ classes \in ClassLists
    /\ NoAccess

\* what the access method gives on the initialized registry reg when asked
\* for names: the keys of the map, the key of the entry, the schemas and
\* their function names, the function, or the ValueError (not ok)
AccessAnswer(reg, method, names) ==
    LET base == [NoAnswer EXCEPT !.method = method, !.asked = names] IN
    CASE method = "tools" ->
           [base EXCEPT !.names = DictKeys(Get(reg.tools))]
      [] method = "get_tool" ->
           [base EXCEPT !.names = IF IsNone(GetTool(reg, names[1])) THEN <<>>
                                  ELSE <<Get(GetTool(reg, names[1])).key>>]
      [] method = "get_tool_schemas" ->
           LET g == GetToolSchemas(reg, names) IN
           [base EXCEPT !.ok = g.ok,
                        !.names = [i \in 1..Len(g.schemas) |-> g.schemas[i].function.name],
                        !.schemas = g.schemas,
                        !.exc = g.exc]
      [] method = "get_tool_function" ->
           LET g == GetToolFunction(reg, names[1]) IN
           [base EXCEPT !.ok = g.ok,
                        !.names = IF g.ok THEN <<g.function>> ELSE <<>>,
                        !.exc = g.exc]
      [] OTHER ->
           [base EXCEPT !.names = ListToolNames(reg)]

\* one access: _ensure_initialized, then the method's own work
RegistryAccess(method, names) ==
    /\ accesses < MaxAccesses
    /\ method = "get_tool_schemas" \/ Len(names) = 1
    /\ registry' = EnsureInitializedOver(registry, classes)
    /\ discoveries' = IF registry' # registry THEN discoveries + 1 ELSE discoveries
    /\ discovered_from' = IF registry' # registry THEN classes ELSE discovered_from
    /\ accesses' = accesses + 1
    /\ answer' = AccessAnswer(registry', method, names)
    /\ UNCHANGED <<requestVars, jsonVars, classes, threads>>

\* reset()
RegistryReset ==
    /\ registry' = ResetRegistry(registry)
    /\ discovered_from' = <<>>
    /\ discoveries' = 0
    /\ accesses' = 0
    /\ answer' = NoAnswer
    /\ UNCHANGED <<requestVars, jsonVars, classes, threads>>

\* a tool class is defined: it joins the end of __subclasses__()
SubclassDefined(cls) ==
    /\ Len(classes) < MaxClasses
    /\ \A i \in 1..Len(classes) : classes[i] # cls
    /\ classes' = Append(classes, cls)
    /\ UNCHANGED <<requestVars, jsonVars, registry, discovered_from, discoveries,
                   accesses, answer, threads>>

\* the i-th tool class is collected as garbage: it leaves __subclasses__()
SubclassRemoved(i) ==
    /\ i \in 1..Len(classes)
    /\ classes' = SubSeq(classes, 1, i - 1) \o SubSeq(classes, i + 1, Len(classes))
    /\ UNCHANGED <<requestVars, jsonVars, registry, discovered_from, discoveries,
                   accesses, answer, threads>>

NextRegistry ==
    \/ \E method \in AccessMethods, names \in AccessNameLists : RegistryAccess(method, names)
    \/ RegistryReset
    \/ \E cls \in ToolClasses : SubclassDefined(cls)
    \/ \E i \in 1..MaxClasses : SubclassRemoved(i)

SpecRegistry == InitRegistry /\ [][NextRegistry]_vars

(***************************************************************************)
(* First accesses from several threads.  The registry takes no lock, so a  *)
(* thread may be switched out between any two steps of get_tool:           *)
(*   check    if not self._initialized                                     *)
(*   assign   self._tools = {}                                             *)
(*   collect  one iteration of the loop of _collect_tools                  *)
(*   set      self._initialized = True                                     *)
(*   lookup   return self._tools.get(name)                                 *)
(***************************************************************************)
threadFrame == <<requestVars, jsonVars, classes, discovered_from, discoveries,
                 accesses, answer>>

\* thread t calls get_tool(name)
GetToolCalled(t, name) ==
    /\ threads[t].pc = "idle"
    /\ threads' = [threads EXCEPT ![t].pc = "check", ![t].name = name]
    /\ UNCHANGED <<threadFrame, registry>>

\* _ensure_initialized: if not self._initialized
CheckInitialized(t) ==
    /\ threads[t].pc = "check"
    /\ threads' = [threads EXCEPT
                     ![t].pc = IF registry.initialized THEN "lookup" ELSE "assign",
                     ![t].fast = registry.initialized]
    /\ UNCHANGED <<threadFrame, registry>>

\* _ensure_initialized: self._tools = {}
AssignEmptyMap(t) ==
    /\ threads[t].pc = "assign"
    /\ registry' = [registry EXCEPT !.tools = Some(<<>>)]
    /\ threads' = [threads EXCEPT ![t].pc = "collect", ![t].index = 1]
    /\ UNCHANGED threadFrame

\* _collect_tools: one iteration of the loop, writing into the map that
\* self._tools is at that moment
CollectOne(t) ==
    /\ threads[t].pc = "collect"
    /\ threads[t].index <= Len(classes)
    /\ registry' = [registry EXCEPT !.tools =
                       Some(CollectTools(<<classes[threads[t].index]>>, Get(registry.tools)))]
    /\ threads' = [threads EXCEPT ![t].index = @ + 1]
    /\ UNCHANGED threadFrame

\* the loop is over; _ensure_initialized: self._initialized = True
SetInitialized(t) ==
    /\ threads[t].pc = "collect"
    /\ threads[t].index > Len(classes)
    /\ registry' = [registry EXCEPT !.initialized = TRUE]
    /\ threads' = [threads EXCEPT ![t].pc = "lookup"]
    /\ UNCHANGED threadFrame

\* get_tool: return self._tools.get(name)
LookUp(t) ==
    /\ threads[t].pc = "lookup"
    /\ threads' = [threads EXCEPT
                     ![t].pc = "done",
                     ![t].found = DictHas(Get(registry.tools), threads[t].name)]
    /\ UNCHANGED <<threadFrame, registry>>

InitThreads ==
    /\ NoRequest
    /\ NoText
    /\ registry = NewRegistry
    /\ classes \in ClassLists
    /\ NoAccess

NextThreads ==
    \E t \in Threads :
        \/ \E name \in AccessNames : GetToolCalled(t, name)
        \/ CheckInitialized(t)
        \/ AssignEmptyMap(t)
        \/ CollectOne(t)
        \/ SetInitialized(t)
        \/ LookUp(t)

SpecThreads == InitThreads /\ [][NextThreads]_vars


(***************************************************************************)
(* Properties of ToolExecutor.execute_tool_calls.                          *)
(***************************************************************************)
\* execute_tool_calls has returned: to handle_tool_calls' caller, or to the
\* tool workflow of query_llm
ExecutorReturned ==
    \/ entry = "handle_tool_calls" /\ pc = "done" /\ Get(outcome).kind = "return"
    \/ entry = "query_llm" /\ Len(requests) = 2

\* C1: execute_tool_calls on a batch of N >= 0 calls returns exactly N
\* results and the i-th result carries the id of the i-th call, whatever
\* each call does (success, unreadable argument text, arguments that are no
\* mapping, unknown tool, a callable that raises); while the loop runs there
\* is one result per call executed.
C1_OneResultPerCallInOrder ==
    /\ pc = "tools" => Len(acc.results) = call_index
    /\ ExecutorReturned =>
         /\ Len(acc.results) = Len(tool_calls)
         /\ \A i \in 1..Len(tool_calls) : acc.results[i].tool_call_id = tool_calls[i].id
    /\ (entry = "handle_tool_calls" /\ pc = "done") =>
         outcome = Some(Return("tool_messages", acc.results))

\* a batch of two calls has returned, one failed and one succeeded
C1_Witness ==
    /\ ExecutorReturned
    /\ entry = "handle_tool_calls"
    /\ Len(tool_calls) = 2
    /\ acc.failed_calls = 1
    /\ acc.successful_calls = 1
    /\ Len(Get(outcome).value) = 2

\* the empty batch has returned the empty list
C1_WitnessEmpty ==
    /\ entry = "handle_tool_calls"
    /\ pc = "done"
    /\ tool_calls = <<>>

\* a result message is an error result for the tool name: its content is a
\* JSON object with exactly the members error, error_type and tool_name,
\* tool_name being the name
IsErrorResult(m, name) ==
    LET v == JsonLoads(Get(m.content)) IN
    /\ v.ok
    /\ v.value.type = "dict"
    /\ {v.value.keys[k].key : k \in 1..Len(v.value.keys)}
          = {<<"error">>, <<"error_type">>, <<"tool_name">>}
    /\ \A k \in 1..Len(v.value.keys) :
          v.value.keys[k].key = <<"tool_name">> => v.value.keys[k].text = <<S(<<name>>)>>

\* C2: no failure of one call (parse failure, arguments that are no mapping,
\* tool lookup failure, an exception of the callable or of the
\* serialization of its result) makes execute_tool_calls raise; the failing
\* call yields an error result whose content is a JSON object with the
\* members error, error_type and tool_name (the requested name), and every
\* call's result is the one the call gives when executed on its own.
C2_FailuresBecomeErrorResults ==
    /\ IsNone(acc.raised)
    /\ (entry = "handle_tool_calls" /\ pc = "done") => Get(outcome).kind = "return"
    /\ (entry = "query_llm" /\ executions > 0 /\ pc = "done" /\ ~IsNone(raised)) =>
         Len(requests) = 2
    /\ Len(acc.results) = Len(outcomes)
    /\ \A i \in 1..Len(acc.results) :
         LET alone == ExecuteSingleTool(registry, tool_calls[i], outcomes[i]) IN
         /\ alone.ok => acc.results[i] = alone.message
         /\ ~alone.ok =>
              /\ IsErrorResult(acc.results[i], tool_calls[i].function.name)
              /\ acc.results[i].tool_call_id = tool_calls[i].id
              /\ acc.results[i].role = "tool"

\* a batch has returned whose first call's callable raised and whose second
\* call succeeded
C2_Witness ==
    /\ ExecutorReturned
    /\ Len(tool_calls) = 2
    /\ outcomes[1].kind = "raise"
    /\ IsErrorResult(acc.results[1], tool_calls[1].function.name)
    /\ ExecuteSingleTool(registry, tool_calls[2], outcomes[2]).ok


(***************************************************************************)
(* Properties of the tool round of query_llm.                              *)
(***************************************************************************)
\* the number of tool calls the first choice of a completion carries
ToolCallCount(c) == IF c.tool_calls = <<>> THEN 0 ELSE Len(c.tool_calls[1])

\* C3: query_llm executes tool calls and sends a follow-up request if and
\* only if the initial completion's first choice carries at least one tool
\* call; when it carries none (tool_calls absent or empty) exactly one
\* request has been sent, the executor has not been called, no callable has
\* been invoked and the call ends with what _process_response gives for the
\* initial completion.
C3_ToolRoundIffToolCalls ==
    entry = "query_llm" =>
      IF IsNone(initial_completion)
      THEN executions = 0 /\ Len(requests) <= 1 /\ invoked = <<>>
      ELSE LET c == Get(initial_completion) IN
           IF ToolCallCount(c) >= 1
           THEN /\ executions = 1
                /\ tool_calls = c.tool_calls[1]
                /\ pc \in {"tools", "followup", "done"}
                /\ pc = "tools" => Len(requests) = 1
                /\ pc \in {"followup", "done"} => Len(requests) = 2
           ELSE /\ executions = 0
                /\ invoked = <<>>
                /\ Len(requests) = 1
                /\ pc = "done"
                /\ outcome = Some(ProcessResponse(c, args.json_response))

\* a query has ended after one request whose completion carried an empty
\* list of tool calls
C3_Witness ==
    /\ entry = "query_llm"
    /\ pc = "done"
    /\ ~IsNone(initial_completion)
    /\ Get(initial_completion).tool_calls = Some(<<>>)
    /\ Len(requests) = 1
    /\ Get(outcome).kind = "return"

\* C4: one call of query_llm makes at most one tool round: the executor is
\* called at most once, at most two requests are sent, and only tool calls
\* of the initial completion are ever executed; a follow-up completion that
\* carries tool calls is returned as it is.
C4_AtMostOneToolRound ==
    entry = "query_llm" =>
      /\ executions <= 1
      /\ Len(requests) <= 2
      /\ executions = 1 => tool_calls = Get(Get(initial_completion).tool_calls)
      /\ Len(invoked) <= Len(tool_calls)
      /\ \A i \in 1..Len(invoked) : \E j \in 1..Len(tool_calls) : invoked[i] = tool_calls[j].id
      /\ Len(outcomes) <= Len(tool_calls)

\* a query has returned the message of a follow-up completion that carries
\* a tool call
C4_Witness ==
    /\ entry = "query_llm"
    /\ pc = "done"
    /\ Len(requests) = 2
    /\ Get(outcome).kind = "return"
    /\ Get(outcome).is = "message"
    /\ ToolCallCount(Get(outcome).value) >= 1
    /\ executions = 1

\* C5: the messages of the follow-up request are the original messages in
\* their order, then the assistant message that carried the tool calls,
\* then one tool result message per tool call in the order of the calls;
\* their number is the number of original messages + 1 + the number of tool
\* calls.
C5_FollowUpMessages ==
    (entry = "query_llm" /\ Len(requests) = 2) =>
      LET original == IF args.messages.t = "one" THEN <<args.messages.v[1]>>
                      ELSE args.messages.v
          c == Get(initial_completion)
          calls == c.tool_calls[1]
          m == requests[2].messages
          n == Len(original)
      IN /\ Len(m) = n + 1 + Len(calls)
         /\ requests[1].messages = original
         /\ \A i \in 1..n : m[i] = original[i]
         /\ m[n + 1] = [role |-> "assistant", content |-> c.content,
                        tool_calls |-> Some(calls)]
         /\ \A i \in 1..Len(calls) :
               /\ m[n + 1 + i].role = "tool"
               /\ m[n + 1 + i].tool_call_id = calls[i].id
               /\ m[n + 1 + i] = acc.results[i]

\* a follow-up request has been built from two original messages and two
\* tool calls
C5_Witness ==
    /\ entry = "query_llm"
    /\ Len(requests) = 2
    /\ Len(requests[1].messages) = 2
    /\ Len(tool_calls) = 2
    /\ Len(requests[2].messages) = 5


(***************************************************************************)
(* Properties of the errors of query_llm.                                  *)
(***************************************************************************)
\* the sequence sub occurs in the sequence msg as a run
Contains(msg, sub) ==
    \E i \in 0..(Len(msg) - Len(sub)) : SubSeq(msg, i + 1, i + Len(sub)) = sub

\* C6: an exception raised inside query_llm after the parameter checks that
\* is no LLMException reaches the caller as an LLMException whose message
\* contains the message of the original and whose cause is the original;
\* an LLMException raised inside reaches the caller unchanged.
C6_ExceptionsWrappedOnce ==
    (entry = "query_llm" /\ pc = "done" /\ ~IsNone(raised)) =>
      LET e == Get(raised)
          o == Get(outcome)
      IN /\ o.kind = "raise"
         /\ IF e.type = "LLMException"
            THEN o.exc = e
            ELSE /\ o.exc.type = "LLMException"
                 /\ Contains(o.exc.msg, e.msg)
                 /\ o.exc.cause = Some(e)

\* a request that failed with an error the policy does not retry has ended
\* the query with an LLMException raised from it
C6_Witness ==
    /\ entry = "query_llm"
    /\ pc = "done"
    /\ ~IsNone(raised)
    /\ Get(raised).type = "BadRequestError"
    /\ Get(outcome).exc.type = "LLMException"

\* response parsing has raised an LLMException, which ended the query
C6_WitnessUnchanged ==
    /\ entry = "query_llm"
    /\ pc = "done"
    /\ ~IsNone(raised)
    /\ Get(raised).type = "LLMException"
    /\ Len(requests) = 2

\* the preparation of the tools of the query has failed: a tool name of the
\* query is no key of the registry
UnknownToolRequested ==
    /\ entry = "query_llm"
    /\ pc = "done"
    /\ lookups = 1
    /\ requests = <<>>

\* C7: when query_llm is given a tool name that is not registered, the
\* error of get_tool_schemas reaches the caller unchanged, with the same
\* kind and message.
C7_UnknownToolErrorUnchanged ==
    UnknownToolRequested =>
      /\ Get(outcome).kind = "raise"
      /\ Get(outcome).exc = PrepareTools(registry, Get(args.tools)).exc

\* the parameters of a query are out of range
ParamsOutOfRange(a) ==
    \/ a.max_tokens < 1
    \/ a.temperature # <<>> /\ (a.temperature[1] < 0 \/ a.temperature[1] > 20)
    \/ a.top_p # <<>> /\ (a.top_p[1] < 0 \/ a.top_p[1] > 10)

\* the query has ended with a ValueError that did not go through the except
\* clauses of query_llm
ValidationErrorRaised ==
    /\ pc = "done"
    /\ IsNone(raised)
    /\ Get(outcome).kind = "raise"
    /\ Get(outcome).exc.type = "ValueError"
    /\ Get(outcome).exc.cause = <<>>

\* C8: when query_llm rejects its parameters it does so before any lookup
\* of tool schemas, any request and any tool execution: the rejected query
\* has made no lookup, sent no request, called no executor and invoked no
\* callable, and the ValueError reaches the caller as it is.
C8_RejectedBeforeAnyWork ==
    (entry = "query_llm" /\ ParamsOutOfRange(args)) =>
      /\ ValidationErrorRaised
      /\ lookups = 0
      /\ requests = <<>>
      /\ executions = 0
      /\ invoked = <<>>
      /\ IsNone(initial_completion)

\* a query with parameters out of range and tools to prepare, one of them
\* unknown, has been rejected
C8_Witness ==
    /\ entry = "query_llm"
    /\ ParamsOutOfRange(args)
    /\ args.tools = Some(List(<<"echo_tool">>))
    /\ ValidationErrorRaised

\* C9: query_llm raises a validation error if and only if max_tokens < 1,
\* or temperature is given and outside [0, 2], or top_p is given and
\* outside [0, 1]; the values at the ends of the ranges are accepted and an
\* absent temperature or top_p is never rejected.
C9_ValidationIffOutOfRange ==
    entry = "query_llm" => (ValidationErrorRaised <=> ParamsOutOfRange(args))

\* a query with max_tokens 1, temperature 2.0 and top_p 0.0 has sent its
\* request
C9_Witness ==
    /\ entry = "query_llm"
    /\ args.max_tokens = 1
    /\ args.temperature = Some(20)
    /\ args.top_p = Some(0)
    /\ Len(requests) = 1

\* a query with temperature and top_p absent has sent its request
C9_WitnessAbsent ==
    /\ entry = "query_llm"
    /\ args.temperature = <<>>
    /\ args.top_p = <<>>
    /\ Len(requests) = 1

(***************************************************************************)
(* Properties of the retry policy.                                         *)
(***************************************************************************)
\* rate-limit, timeout and connection errors
Transient(e) == e.type \in {"RateLimitError", "APITimeoutError", "APIConnectionError"}

\* C10: a request is attempted again after a failure only if the failure is
\* a rate-limit, timeout or connection error and fewer than the maximum
\* number of attempts have been made; any other error ends the request at
\* that attempt, and a request is never attempted more than the maximum
\* number of times.
C10_RetryOnlyTransientUpToMax ==
    /\ attempt_number <= RETRY_MAX_ATTEMPTS
    /\ (pc \in {"initial", "followup"} /\ ~IsNone(last_error)) =>
         /\ Transient(Get(last_error))
         /\ attempt_number < RETRY_MAX_ATTEMPTS
    /\ (pc = "done" /\ ~IsNone(last_error)) =>
         /\ ~IsNone(raised)
         /\ IF Transient(Get(last_error))
            THEN /\ attempt_number = RETRY_MAX_ATTEMPTS
                 /\ Get(raised).type = "RetryError"
                 /\ Get(raised).cause = last_error
            ELSE raised = last_error

\* a request has failed with transient errors at every attempt up to the
\* maximum
C10_Witness ==
    /\ pc = "done"
    /\ attempt_number = RETRY_MAX_ATTEMPTS
    /\ ~IsNone(last_error)
    /\ Transient(Get(last_error))

\* a request has ended at its first attempt with an error the policy does
\* not retry
C10_WitnessSingleAttempt ==
    /\ pc = "done"
    /\ attempt_number = 1
    /\ ~IsNone(last_error)
    /\ ~Transient(Get(last_error))


\* C11: every attempt beyond the first of a retry-wrapped request is logged
\* once as "Retrying LLM request" and nothing is logged for the first
\* attempt: a request at its n-th attempt has n - 1 retry log entries, and
\* a request that failed for good after n attempts has n - 1.
C11_OneLogEntryPerRetry ==
    /\ pc \in {"initial", "followup"} => Len(retry_log) = attempt_number
    /\ (pc = "done" /\ attempt_number >= 1) => Len(retry_log) = attempt_number - 1


(***************************************************************************)
(* Properties of the response of query_llm.                                *)
(***************************************************************************)
\* the query has ended in _process_response, on the last completion received
ResponseProcessed ==
    /\ entry = "query_llm"
    /\ pc = "done"
    /\ ~IsNone(final_completion)
    /\ IsNone(last_error)

\* a text of white space only, the empty text included
OnlyWhiteSpace(t) == \A i \in 1..Len(t) : t[i].k = "w"

\* C12: with json_response true, query_llm raises LLMException "LLM returned
\* None content for JSON response" when the content of the final
\* completion is None, and LLMException "LLM returned empty content for JSON
\* response" when it is empty or white space only; in both cases neither
\* json.loads nor clean_json_response is called.
C12_NoContentForJson ==
    (ResponseProcessed /\ args.json_response) =>
      LET content == Get(final_completion).content IN
      /\ content = <<>> =>
           /\ outcome = Some(Raise(Exc("LLMException",
                              <<"LLM returned None content for JSON response">>)))
           /\ parse_steps = <<>>
      /\ (content # <<>> /\ OnlyWhiteSpace(content[1])) =>
           /\ outcome = Some(Raise(Exc("LLMException",
                              <<"LLM returned empty content for JSON response">>)))
           /\ parse_steps = <<>>

\* a query in JSON mode has ended on a follow-up completion whose content
\* is white space
C12_Witness ==
    /\ ResponseProcessed
    /\ args.json_response
    /\ Len(requests) = 2
    /\ Get(final_completion).content = Some(<<W>>)
    /\ Get(outcome).kind = "raise"

\* a query in JSON mode has ended on a completion without content
C12_WitnessNone ==
    /\ ResponseProcessed
    /\ args.json_response
    /\ Get(final_completion).content = <<>>
    /\ Get(outcome).kind = "raise"

\* C13: with json_response true, every value query_llm returns is a JSON
\* object or a JSON array, never a number, a string, a boolean or null.
C13_JsonValueIsObjectOrArray ==
    (ResponseProcessed /\ args.json_response /\ Get(outcome).kind = "return") =>
      Get(outcome).value.type \in {"dict", "list"}

\* C14: with json_response false, query_llm returns the assistant message
\* of the last completion it received (the follow-up completion after a
\* tool round, the initial completion otherwise) with its role, content
\* and tool calls, and parses nothing.
C14_TextModeReturnsMessage ==
    (ResponseProcessed /\ ~args.json_response) =>
      /\ Get(outcome).kind = "return"
      /\ Get(outcome).is = "message"
      /\ Get(outcome).value.role = "assistant"
      /\ Get(outcome).value.content = Get(final_completion).content
      /\ Get(outcome).value.tool_calls = Get(final_completion).tool_calls
      /\ parse_steps = <<>>
      /\ Len(requests) = 1 => final_completion = initial_completion

\* a query in text mode has returned, after a tool round, the message of a
\* follow-up completion whose content reads as JSON
C14_Witness ==
    /\ ResponseProcessed
    /\ ~args.json_response
    /\ Len(requests) = 2
    /\ Get(final_completion).content = Some(JsonObjectText)
    /\ final_completion # initial_completion
    /\ Get(outcome).value.content = Some(JsonObjectText)


\* C15: the follow-up request of a tool round carries the model,
\* max_tokens, temperature, top_p, extra keyword parameters and
\* response_format of the initial request of the query, and its attempts
\* are governed by the same retry policy: a failed attempt is followed by
\* another only for a transient error and below the maximum.
C15_FollowUpKeepsParameters ==
    (entry = "query_llm" /\ Len(requests) = 2) =>
      /\ requests[2].model = requests[1].model
      /\ requests[2].max_tokens = requests[1].max_tokens
      /\ requests[2].kwargs.temperature = requests[1].kwargs.temperature
      /\ requests[2].kwargs.top_p = requests[1].kwargs.top_p
      /\ requests[2].kwargs.extra = requests[1].kwargs.extra
      /\ requests[2].response_format = requests[1].response_format
      /\ requests[2].max_tokens = args.max_tokens
      /\ requests[2].kwargs.temperature = args.temperature
      /\ requests[2].kwargs.top_p = args.top_p
      /\ requests[2].kwargs.extra = args.kwargs
      /\ (requests[2].response_format # <<>>) = args.json_response
      /\ (pc = "followup" /\ attempt_number >= 1) =>
           /\ Transient(Get(last_error))
           /\ attempt_number < RETRY_MAX_ATTEMPTS

\* the follow-up request of a query in JSON mode with temperature 0 and
\* seed=7 is at its second attempt
C15_Witness ==
    /\ entry = "query_llm"
    /\ pc = "followup"
    /\ Len(requests) = 2
    /\ args.kwargs # <<>>
    /\ requests[2].kwargs.extra = args.kwargs
    /\ requests[2].response_format = Some("json_object")
    /\ requests[2].kwargs.temperature = Some(0)
    /\ attempt_number = 1


(***************************************************************************)
(* Properties of clean_json_response.                                      *)
(***************************************************************************)
\* the segments of the text that are fenced blocks
FencedSegments == {i \in 1..Len(segments) : segments[i].kind = "fenced"}

\* C16: on a text that is not empty, clean_json_response tries (1) the whole
\* text, (2) the inside of the first fenced block, (3) the span from the
\* first opening brace or bracket to the last closing one of the text
\* without trailing commas, in this order, and returns the value of the
\* first attempt that succeeds; an attempt that does not apply or fails is
\* followed by the next, and LLMException "Failed to parse JSON response
\* after all attempts" is raised exactly when all three fail.
C16_FirstSuccessfulAttemptWins ==
    ~IsNone(cleaned) =>
      LET t == TextOf(segments)
          r == Get(cleaned)
          whole == JsonLoads(t)
          has_block == FencedSegments # {}
          inside == JsonLoads(segments[Min(FencedSegments)].body)
          span == BraceSpan(StripTrailingCommas(StripTrailingCommas(t, "}"), "]"))
          spanned == JsonLoads(span.group)
          ok1 == whole.ok
          ok2 == has_block /\ inside.ok
          ok3 == span.found /\ spanned.ok
      IN /\ r.ok <=> (ok1 \/ ok2 \/ ok3)
         /\ ok1 => r.value = whole.value /\ r.attempts = <<"whole">>
         /\ (~ok1 /\ ok2) => r.value = inside.value /\ r.attempts = <<"whole", "fenced">>
         /\ (~ok1 /\ ~ok2 /\ ok3) =>
              /\ r.value = spanned.value
              /\ r.attempts = <<"whole">> \o (IF has_block THEN <<"fenced">> ELSE <<>>)
                                \o <<"span">>
         /\ ~r.ok =>
              /\ r.exc = Exc("LLMException",
                             <<"Failed to parse JSON response after all attempts">>)
              /\ r.attempts = <<"whole">> \o (IF has_block THEN <<"fenced">> ELSE <<>>)
                                \o (IF span.found THEN <<"span">> ELSE <<>>)

\* a text whose fenced block holds an object with a trailing comma has been
\* read at the third attempt
C16_Witness ==
    /\ ~IsNone(cleaned)
    /\ FencedSegments # {}
    /\ Get(cleaned).ok
    /\ Get(cleaned).attempts = <<"whole", "fenced", "span">>

\* all three attempts have failed on a text
C16_WitnessAllFail ==
    /\ ~IsNone(cleaned)
    /\ ~Get(cleaned).ok
    /\ Get(cleaned).attempts = <<"whole", "fenced", "span">>

\* the segments of the text that hold a JSON value
ValueSegments ==
    {i \in 1..Len(segments) :
        segments[i].kind \in {"bare", "fenced"} /\ JsonLoads(segments[i].body).ok}

\* C17: for a text that contains several JSON values, in fenced blocks or
\* bare, clean_json_response returns the leftmost of them.
C17_LeftmostValueReturned ==
    (~IsNone(cleaned) /\ Cardinality(ValueSegments) >= 2) =>
      /\ Get(cleaned).ok
      /\ Get(cleaned).value = JsonLoads(segments[Min(ValueSegments)].body).value


\* the classes of cs, in order, whose schema and callable can be had
Discoverable(cs) ==
    SelectSeq(cs, LAMBDA cls : cls \notin {"BrokenTool", "SchemalessTool"})

RegistryKeys == IF IsNone(registry.tools) THEN <<>> ELSE DictKeys(Get(registry.tools))

\* C18: discovery is lazy and runs exactly once per epoch: a registry that has
\* not been accessed since its construction or its last reset() holds no map
\* and has run no discovery; once accessed it is initialized, has run exactly
\* one discovery however many accesses followed, and its map holds the classes
\* that were discoverable at the first access of the epoch, whatever classes
\* there were before the reset() or have come and gone since.
C18_DiscoveryOncePerEpoch ==
    /\ accesses = 0 => ~registry.initialized /\ IsNone(registry.tools) /\ discoveries = 0
    /\ accesses > 0 => /\ registry.initialized
                       /\ discoveries = 1
                       /\ RegistryKeys = Discoverable(discovered_from)

\* a second access found the map of the first although the classes changed
C18_Witness ==
    /\ accesses = 2
    /\ discoveries = 1
    /\ Discoverable(classes) # Discoverable(discovered_from)
    /\ RegistryKeys = Discoverable(discovered_from)
    /\ answer.method = "list_tool_names"
    /\ answer.names = RegistryKeys

\* the first access of an epoch built the map from two discoverable classes
C18_WitnessFirstAccess ==
    /\ accesses = 1
    /\ discoveries = 1
    /\ discovered_from = classes
    /\ Len(RegistryKeys) = 2

\* C20: a class whose schema access or callable constructor raises during
\* discovery is absent from the registry and is not answered for; every other
\* class of the discovery is present whatever its position, and the registry
\* is initialized and answers get_tool, get_tool_function and
\* get_tool_schemas for it.
C20_FailedToolSkippedOthersKept ==
    accesses > 0 =>
        /\ registry.initialized
        /\ \A i \in 1..Len(discovered_from) :
             LET cls == discovered_from[i] IN
             IF ToolSchemaRaises(cls) \/ ToolFunctionRaises(cls)
             THEN /\ ~DictHas(Get(registry.tools), cls)
                  /\ IsNone(GetTool(registry, cls))
                  /\ ~GetToolFunction(registry, cls).ok
             ELSE /\ DictHas(Get(registry.tools), cls)
                  /\ ~IsNone(GetTool(registry, cls))
                  /\ GetToolFunction(registry, cls).ok
                  /\ GetToolSchemas(registry, <<cls>>).ok

\* a class that raises came first and another in the middle, and the two
\* discoverable classes behind them are in the map
C20_Witness ==
    /\ accesses > 0
    /\ Len(discovered_from) = 3
    /\ ToolFunctionRaises(discovered_from[1]) \/ ToolSchemaRaises(discovered_from[1])
    /\ RegistryKeys = <<discovered_from[2], discovered_from[3]>>

C20_WitnessMiddle ==
    /\ accesses > 0
    /\ Len(discovered_from) = 3
    /\ ToolSchemaRaises(discovered_from[2])
    /\ RegistryKeys = <<discovered_from[1], discovered_from[3]>>
    /\ answer.method = "get_tool_function"
    /\ answer.ok


\* C19: with first accesses running at the same time, a get_tool that saw the
\* registry initialized (or initialized it) finds every discoverable tool it
\* asks for, and once every thread is done the map holds what one
\* uninterrupted discovery builds.
C19_ConcurrentFirstAccessesSafe ==
    /\ \A t \in Threads :
         (/\ threads[t].pc = "done"
          /\ \E i \in 1..Len(Discoverable(classes)) :
                Discoverable(classes)[i] = threads[t].name)
         => threads[t].found
    /\ (\A t \in Threads : threads[t].pc = "done")
         => {RegistryKeys[i] : i \in 1..Len(RegistryKeys)}
              = {DictKeys(CollectTools(classes, <<>>))[i] :
                   i \in 1..Len(DictKeys(CollectTools(classes, <<>>)))}


\* the names the last discovery collected
Registered(name) ==
    \E i \in 1..Len(Discoverable(discovered_from)) : Discoverable(discovered_from)[i] = name

\* the names an unknown-tool error lists after its text
ListedNames(exc) == SubSeq(exc.msg, 4, Len(exc.msg))

\* C21: get_tool_schemas gives one schema per requested name, in request
\* order, when every name is registered; when a name is absent it raises a
\* ValueError that names the unknown tool and lists all the available names,
\* and gives no schema at all.  get_tool_function raises the same kind of
\* error, listing the available names, exactly when the name is absent.  In
\* both cases the map of the registry is still the one discovery built.
C21_UnknownToolErrorListsNames ==
    /\ answer.method = "get_tool_schemas" =>
         /\ Get(registry.tools) = CollectTools(discovered_from, <<>>)
         /\ IF \A i \in 1..Len(answer.asked) : Registered(answer.asked[i])
            THEN /\ answer.ok
                 /\ Len(answer.schemas) = Len(answer.asked)
                 /\ \A i \in 1..Len(answer.asked) :
                      answer.schemas[i] = ToolSchema(answer.asked[i])
            ELSE /\ ~answer.ok
                 /\ answer.schemas = <<>>
                 /\ answer.exc.type = "ValueError"
                 /\ Len(answer.exc.msg) >= 3
                 /\ ~Registered(answer.exc.msg[2])
                 /\ ListedNames(answer.exc) = Discoverable(discovered_from)
    /\ answer.method = "get_tool_function" =>
         /\ Get(registry.tools) = CollectTools(discovered_from, <<>>)
         /\ answer.ok <=> Registered(answer.asked[1])
         /\ answer.ok => answer.names = <<answer.asked[1]>>
         /\ ~answer.ok => /\ answer.exc.type = "ValueError"
                          /\ Len(answer.exc.msg) >= 3
                          /\ answer.exc.msg[2] = answer.asked[1]
                          /\ ListedNames(answer.exc) = Discoverable(discovered_from)

\* two registered names asked for, the schemas came in request order
C21_Witness ==
    /\ answer.method = "get_tool_schemas"
    /\ answer.asked = <<"AddTool", "EchoTool">>
    /\ answer.ok
    /\ answer.names = <<"add_tool", "echo_tool">>

\* a registered name before an absent one: the error, and no schema
C21_WitnessUnknown ==
    /\ answer.method = "get_tool_schemas"
    /\ answer.asked = <<"EchoTool", "BrokenTool">>
    /\ Registered("EchoTool")
    /\ ~answer.ok
    /\ Len(ListedNames(answer.exc)) = 2

C21_WitnessFunction ==
    /\ answer.method = "get_tool_function"
    /\ ~answer.ok
    /\ Len(ListedNames(answer.exc)) = 2


\* the value a callable returned is one of the JSON-compatible types
JsonCompatible(o) ==
    /\ o.kind = "return"
    /\ o.value.has = {}
    /\ o.value.type \in {"dict", "list", "str", "int", "float", "bool", "NoneType"}

\* C22: the result of a call whose callable returned carries the id and the
\* function name of the call, and when the returned value is a JSON object,
\* array, string, number, boolean or null, reading the content of the result
\* as JSON gives a value of the same type with the same members and text.
C22_SerializedResultRoundTrips ==
    \A i \in 1..call_index :
        outcomes[i].kind = "return" =>
            /\ Len(acc.results) >= i
            /\ acc.results[i].tool_call_id = tool_calls[i].id
            /\ acc.results[i].name = tool_calls[i].function.name
            /\ JsonCompatible(outcomes[i]) =>
                 LET parsed == JsonLoads(Get(acc.results[i].content)) IN
                 /\ parsed.ok
                 /\ parsed.value.type = outcomes[i].value.type
                 /\ parsed.value.keys = outcomes[i].value.keys
                 /\ parsed.value.json = outcomes[i].value.json

\* a float and then a dict were returned and serialized with separators
C22_Witness ==
    /\ call_index = 2
    /\ JsonCompatible(outcomes[1]) /\ outcomes[1].value.type = "float"
    /\ JsonCompatible(outcomes[2]) /\ outcomes[2].value.type = "dict"
    /\ Get(acc.results[2].content) # outcomes[2].value.json
    /\ JsonLoads(Get(acc.results[2].content)).value.json = outcomes[2].value.json


\* the argument text of the call is no JSON, is JSON but no object
Unparsable(call) == call.function.arguments = ArgsBroken
NotAMapping(call) == call.function.arguments = ArgsArray

\* the error of the result m says msg
ErrorSays(m, msg) ==
    LET v == JsonLoads(Get(m.content)) IN
    /\ v.ok
    /\ \E k \in 1..Len(v.value.keys) :
         /\ v.value.keys[k].key = <<"error">>
         /\ Len(v.value.keys[k].text) = 1
         /\ Contains(v.value.keys[k].text[1].v, <<msg>>)

\* C23: each executed call ran a beginning of the steps parse, mapping,
\* resolve, invoke, in that order, and stopped at the first that failed: a
\* call with unreadable arguments ran the parse only, one whose arguments are
\* no mapping ran parse and mapping only; neither consulted the registry nor
\* invoked a callable, and the error result reports the argument error, also
\* when the tool name is not registered.  A registry nothing else has read is
\* still uninitialized after a batch of such calls.
C23_ArgumentsCheckedBeforeLookup ==
    /\ Len(steps_run) = call_index
    /\ \A i \in 1..call_index :
         LET call == tool_calls[i]
             all == <<"parse", "mapping", "resolve", "invoke">>
         IN /\ Len(steps_run[i]) \in 1..4
            /\ steps_run[i] = SubSeq(all, 1, Len(steps_run[i]))
            /\ Len(acc.results) >= i
            /\ Len(steps_run[i]) < 4 => IsErrorResult(acc.results[i], call.function.name)
            /\ Unparsable(call) =>
                 /\ steps_run[i] = <<"parse">>
                 /\ ErrorSays(acc.results[i], "Invalid JSON in tool arguments: ")
            /\ NotAMapping(call) =>
                 /\ steps_run[i] = <<"parse", "mapping">>
                 /\ ErrorSays(acc.results[i], "Tool arguments must be a dictionary, got ")
            /\ (Unparsable(call) \/ NotAMapping(call)) =>
                 /\ outcomes[i] = NotInvoked
                 /\ \A k \in 1..Len(invoked) : invoked[k] # call.id
            /\ Len(steps_run[i]) = 3 =>
                 ErrorSays(acc.results[i], "' not found. Available tools: ")
    /\ (\A i \in 1..call_index : Unparsable(tool_calls[i]) \/ NotAMapping(tool_calls[i]))
         => ~registry.initialized

\* two calls for an unregistered name, one with unreadable arguments and one
\* with an array, have been executed and the registry has not been read
C23_Witness ==
    /\ call_index = 2
    /\ Unparsable(tool_calls[1]) /\ tool_calls[1].function.name = "echo_tool"
    /\ NotAMapping(tool_calls[2]) /\ tool_calls[2].function.name = "echo_tool"
    /\ ~registry.initialized
    /\ acc.failed_calls = 2

\* a call ran all four steps after one that stopped at the lookup
C23_WitnessAllSteps ==
    /\ call_index = 2
    /\ Len(steps_run[1]) = 3
    /\ Len(steps_run[2]) = 4
    /\ registry.initialized


\* C24: in one query each call's callable is invoked at most once: the
\* executor runs at most once, no call id is invoked twice, a callable that
\* raised was invoked exactly once, and while the initial or the follow-up
\* request is being attempted, however often, the executions are those of
\* before the request: none, and one per call of the batch.
C24_CallableInvokedAtMostOnce ==
    entry = "query_llm" =>
      /\ executions <= 1
      /\ Len(outcomes) = call_index
      /\ Len(invoked) <= call_index
      /\ \A i, j \in 1..Len(invoked) : i # j => invoked[i] # invoked[j]
      /\ \A i \in 1..Len(outcomes) :
           outcomes[i].kind = "raise" =>
             Cardinality({k \in 1..Len(invoked) : invoked[k] = tool_calls[i].id}) = 1
      /\ pc = "initial" => executions = 0 /\ invoked = <<>>
      /\ pc = "followup" => executions = 1 /\ call_index = Len(tool_calls)

\* the follow-up request is at its second retry after a batch of two calls
\* whose first callable raised
C24_Witness ==
    /\ entry = "query_llm"
    /\ pc = "followup"
    /\ attempt_number = 2
    /\ Len(tool_calls) = 2
    /\ outcomes[1].kind = "raise"
    /\ Len(invoked) = 2

\* the initial request is at its second retry
C24_WitnessInitial ==
    /\ entry = "query_llm"
    /\ pc = "initial"
    /\ attempt_number = 2


\* C25: a tool call contributes exactly one result, also when its success
\* log statement raises after the result has been recorded: there is one
\* result per call executed, every executed call is counted once, as a
\* success or as a failure, and execute_tool_calls returns no more results
\* than it was given calls.
C25_OneResultDespiteLogFailure ==
    /\ pc = "tools" => Len(acc.results) = call_index
    /\ acc.successful_calls + acc.failed_calls = call_index
    /\ ExecutorReturned => Len(acc.results) <= Len(tool_calls)


\* the caller of the query listed the tool name in its tools argument
Offered(name) ==
    /\ ~IsNone(args.tools)
    /\ \E i \in 1..Len(Get(args.tools).v) : Get(args.tools).v[i] = name

\* C26: in the tool round of a query only tools the caller listed in the
\* tools argument are invoked: a call whose callable was invoked names an
\* offered tool.
C26_OnlyOfferedToolsInvoked ==
    entry = "query_llm" =>
      \A i \in 1..Len(steps_run) :
        (\E k \in 1..Len(steps_run[i]) : steps_run[i][k] = "invoke")
          => Offered(tool_calls[i].function.name)


\* C27: every registered tool can be called back by the name the model sees:
\* the function name of the schema get_tool_schemas returns for the tool
\* resolves through get_tool_function to the callable of that same tool.
C27_SchemaNameResolves ==
    registry.initialized =>
      \A i \in 1..Len(RegistryKeys) :
        LET offered == GetToolSchemas(registry, <<RegistryKeys[i]>>)
            resolved == GetToolFunction(registry, offered.schemas[1].function.name)
        IN /\ offered.ok
           /\ resolved.ok
           /\ resolved.function = DictGet(Get(registry.tools), RegistryKeys[i]).function


\* the position in the batch of the call with the id
PositionOf(id) == CHOOSE j \in 1..Len(tool_calls) : tool_calls[j].id = id

C29_FollowUpWithoutTools ==
    (entry = "query_llm" /\ Len(requests) = 2) => IsNone(requests[2].tools)

\* a follow-up request was sent in a query whose initial request carried the
\* schema of EchoTool
C29_Witness ==
    /\ entry = "query_llm"
    /\ Len(requests) = 2
    /\ requests[1].tools = Some(<<ToolSchema("EchoTool")>>)
    /\ IsNone(requests[2].tools)

\* C30: query_llm leaves the caller's messages as they were passed: at every
\* point of a query, also after a tool round and after a failure, the
\* argument is one of the values a caller passes and holds the messages the
\* initial request was built from; the assistant message and the tool
\* results are in the messages of the follow-up request only.
C30_CallerMessagesUntouched ==
    entry = "query_llm" =>
      /\ args.messages \in MessagesArgs
      /\ Len(requests) >= 1 => requests[1].messages = NormalizeMessages(args.messages)
      /\ Len(requests) = 2 =>
           /\ Len(requests[2].messages)
                = Len(NormalizeMessages(args.messages)) + 1 + Len(acc.results)
           /\ SubSeq(requests[2].messages, 1, Len(NormalizeMessages(args.messages)))
                = NormalizeMessages(args.messages)

\* a query given a list of two messages has made a tool round of two calls
\* and returned
C30_Witness ==
    /\ entry = "query_llm"
    /\ pc = "done"
    /\ Get(outcome).kind = "return"
    /\ args.messages = List(<<SystemMessage, UserMessage>>)
    /\ Len(requests) = 2
    /\ Len(requests[2].messages) = 5

\* a query given a list has failed after its tool round
C30_WitnessFailed ==
    /\ entry = "query_llm"
    /\ pc = "done"
    /\ Get(outcome).kind = "raise"
    /\ args.messages = List(<<SystemMessage, UserMessage>>)
    /\ Len(requests) = 2

====
